---- MODULE Spec2Model ----
(***************************************************************************)
(* Session authentication of print-app: the Edge Gate (src/middleware.ts), *)
(* the Session Codec, the Identity Resolver and the Session Lifecycle      *)
(* Operations (src/lib/auth).                                              *)
(*                                                                         *)
(* A state is one client's cookie jar, the process configuration (the      *)
(* environment variables LOGTO_ENABLE, LOGTO_COOKIE_SECRET and             *)
(* LOGTO_BASE_URL), the clock in epoch seconds, what the provider client   *)
(* would answer, and the result of the last operation served.              *)
(***************************************************************************)
EXTENDS Integers, Sequences, FiniteSets, TLC

VARIABLES
    LOGTO_ENABLE,          \* process.env.LOGTO_ENABLE ("" when not set)
    LOGTO_COOKIE_SECRET,   \* process.env.LOGTO_COOKIE_SECRET ("" when not set)
    LOGTO_BASE_URL,        \* process.env.LOGTO_BASE_URL ("" when not set)
    now,                   \* Math.floor(Date.now() / 1000)
    jar,                   \* the client's cookie jar: cookie name -> token
    provider,              \* outcome of logtoClient.getLogtoContext for this client
    resp                   \* the last operation and its result

vars == <<LOGTO_ENABLE, LOGTO_COOKIE_SECRET, LOGTO_BASE_URL, now, jar, provider, resp>>

-----------------------------------------------------------------------------
(* Bounds *)

\* the clock runs from 0 to MaxTime
MaxTime == 2

\* an expiry that lies after every time the clock reaches
Far == MaxTime + 1

-----------------------------------------------------------------------------
(* Configuration: src/lib/auth/index.ts 90-116, src/middleware.ts 8-13 *)

LOGTO_SESSION_COOKIE == "logto_session"
VIRTUAL_USER_COOKIE == "virtual_user"
AUTH_ERROR_COOKIE == "auth_error"
CookieNames == {LOGTO_SESSION_COOKIE, VIRTUAL_USER_COOKIE, AUTH_ERROR_COOKIE}

\* A pathname is a sequence of pieces; no piece is a prefix of another piece,
\* so one pathname starts with another exactly when its sequence does.
PROTECTED_ROUTES ==
    { <<"/", "chat">>, <<"/", "api", "/", "chat">>,
      <<"/", "api", "/", "deployments">>, <<"/", "api", "/", "upload">> }

PUBLIC_ROUTES ==
    { <<"/", "api", "/", "auth">>, <<"/", "api", "/", "health">>,
      <<"/", "api", "/", "system">>, <<"/", "_next">>, <<"/", "favicon.ico">> }

API_PREFIX == <<"/", "api", "/">>

AUTH_ROUTES_signIn == <<"/", "api", "/", "auth", "/", "sign-in">>

\* the secret each checkpoint falls back to when LOGTO_COOKIE_SECRET is not set
CONFIG_DEFAULT_SECRET == "s3cr3t-default-key-change-me"
MIDDLEWARE_DEFAULT_SECRET == "s3cr3t"

\* a || b on strings: the empty string (and undefined) is falsy
OrElse(a, b) == IF a = "" THEN b ELSE a

\* CONFIG.cookieSecret
CONFIG_cookieSecret(env) == OrElse(env, CONFIG_DEFAULT_SECRET)

\* process.env.LOGTO_COOKIE_SECRET || 's3cr3t' in verifySession
middlewareSecret(env) == OrElse(env, MIDDLEWARE_DEFAULT_SECRET)

shouldEnforceAuth(env) == env = "true"

-----------------------------------------------------------------------------
(* Session Codec: tokens, jwtVerify, decryptSession *)

\* UserProfile; defined = FALSE is the absent (undefined) profile; exp = 0 is
\* the exp that is falsy in "data.userInfo.exp && ...": the number 0, or none
NoUserInfo ==
    [defined |-> FALSE, iss |-> "", sub |-> "", aud |-> "", exp |-> 0, iat |-> 0]

\* the profile setVirtualUser embeds: sub and exp vary, the rest is fixed
VirtualUserInfo(sub, exp) ==
    [defined |-> TRUE, iss |-> "https://auth.upage.io", sub |-> sub,
     aud |-> "virtual-app", exp |-> exp, iat |-> 0]

\* the profile the provider reports for its signed-in user
ProviderUserInfo ==
    [defined |-> TRUE, iss |-> "https://logto.example", sub |-> "logto-user",
     aud |-> "app", exp |-> Far, iat |-> 0]

\* Session Claims, as the payload of a token (absent keys: FALSE, NoUserInfo, "")
Claims(auth, virt, info, err) ==
    [isAuthenticated |-> auth, isVirtual |-> virt, userInfo |-> info,
     errorMessage |-> err]

VirtualClaims(uexp) == Claims(TRUE, TRUE, VirtualUserInfo("virtual-user", uexp), "")
ProviderClaims == Claims(TRUE, FALSE, ProviderUserInfo, "")
ErrorClaims == Claims(FALSE, FALSE, NoUserInfo, "sign-in failed")
NoProfileClaims == Claims(TRUE, TRUE, NoUserInfo, "")
NotAuthenticatedClaims == Claims(FALSE, TRUE, VirtualUserInfo("virtual-user", Far), "")

EmptyClaims == Claims(FALSE, FALSE, NoUserInfo, "")

\* A cookie value.  form "none": no such cookie; "empty": the empty string;
\* "garbage": a string that is no JWT; "jwt": an HS256 JWT signed with key,
\* sig = FALSE when it was altered after signing.
NoCookie == [form |-> "none", key |-> "", sig |-> FALSE, exp |-> 0, payload |-> EmptyClaims]
EmptyValue == [form |-> "empty", key |-> "", sig |-> FALSE, exp |-> 0, payload |-> EmptyClaims]
Garbage == [form |-> "garbage", key |-> "", sig |-> FALSE, exp |-> 0, payload |-> EmptyClaims]
Jwt(key, sig, exp, payload) ==
    [form |-> "jwt", key |-> key, sig |-> sig, exp |-> exp, payload |-> payload]

\* cookie?.value is truthy
HasValue(tok) == tok.form \notin {"none", "empty"}

\* jose's jwtVerify(token, secret) returns (does not throw): the token is a JWT,
\* its HS256 signature verifies under secret, and its exp is later than the clock
jwtVerify_NoSignature(tok, secret, t) ==
    /\ tok.form = "jwt"
    /\ tok.exp > t

jwtVerify_NoExpiry(tok, secret, t) ==
    /\ tok.form = "jwt"
    /\ tok.sig
    /\ tok.key = secret

jwtVerify(tok, secret, t) ==
    /\ tok.form = "jwt"
    /\ tok.sig
    /\ tok.key = secret
    /\ tok.exp > t

\* getSecretKey(): the bytes of CONFIG.cookieSecret
getSecretKey(env) == CONFIG_cookieSecret(env)

\* decryptSession's result: null, or the payload
Null == [null |-> TRUE, threw |-> FALSE, data |-> EmptyClaims]
Payload(c) == [null |-> FALSE, threw |-> FALSE, data |-> c]
Thrown == [null |-> TRUE, threw |-> TRUE, data |-> EmptyClaims]

decryptSession_Rethrow(tok, env, t) ==
    IF jwtVerify(tok, getSecretKey(env), t) THEN Payload(tok.payload) ELSE Thrown

\* try { jwtVerify } catch { return null }
decryptSession(tok, env, t) ==
    IF jwtVerify(tok, getSecretKey(env), t) THEN Payload(tok.payload) ELSE Null

-----------------------------------------------------------------------------
(* Identity Resolver: src/lib/auth/index.ts 168-183, 264-298, 341-369 *)

\* AuthContext; isMock, isVirtual and claims are absent when FALSE
AuthContext(auth, mock, virt, info, claims) ==
    [isAuthenticated |-> auth, isMock |-> mock, isVirtual |-> virt,
     userInfo |-> info, hasClaims |-> claims]

Unauthenticated == AuthContext(FALSE, FALSE, FALSE, NoUserInfo, FALSE)

getMockDevUser(t) ==
    AuthContext(TRUE, TRUE, FALSE,
                [defined |-> TRUE, iss |-> "https://mock.issuer.com",
                 sub |-> "mock-user-id", aud |-> "mock-audience",
                 exp |-> t + 3600, iat |-> t],
                FALSE)

\* cookieStore.delete(VIRTUAL_USER_COOKIE)
clearVirtualUser(j) == [j EXCEPT ![VIRTUAL_USER_COOKIE] = NoCookie]

\* what a step of the resolver returns: its value (null: no user), the jar it
\* leaves, the cookies it read and deleted, and whether it threw instead
Step(isNull, user, j, reads, deletes, threw) ==
    [isNull |-> isNull, user |-> user, jar |-> j, reads |-> reads,
     deletes |-> deletes, threw |-> threw]

\* data.isAuthenticated and data.userInfo of decoded claims: a key the payload
\* does not have reads as undefined
isAuthenticatedOf(d) == IF "isAuthenticated" \in DOMAIN d THEN d.isAuthenticated ELSE FALSE
userInfoOf(d) == IF "userInfo" \in DOMAIN d THEN d.userInfo ELSE NoUserInfo

getVirtualUser_ServeThenDelete(j, env, t) ==
    LET virtualCookie == j[VIRTUAL_USER_COOKIE]
        data == decryptSession(virtualCookie, env, t)
        rd == {VIRTUAL_USER_COOKIE}
    IN  IF ~HasValue(virtualCookie)
          THEN Step(TRUE, Unauthenticated, j, rd, {}, FALSE)
        ELSE IF data.threw
          THEN Step(TRUE, Unauthenticated, j, rd, {}, TRUE)
        ELSE IF data.null \/ ~isAuthenticatedOf(data.data) \/ ~userInfoOf(data.data).defined
          THEN Step(TRUE, Unauthenticated, j, rd, {}, FALSE)
        ELSE IF data.data.userInfo.exp # 0 /\ data.data.userInfo.exp < t
          THEN Step(FALSE, AuthContext(TRUE, FALSE, TRUE, data.data.userInfo, FALSE),
                    clearVirtualUser(j), rd, rd, FALSE)
        ELSE Step(FALSE, AuthContext(TRUE, FALSE, TRUE, data.data.userInfo, FALSE),
                  j, rd, {}, FALSE)

getVirtualUser_VirtualClaimsOnly(j, env, t) ==
    LET virtualCookie == j[VIRTUAL_USER_COOKIE]
        data == decryptSession(virtualCookie, env, t)
        rd == {VIRTUAL_USER_COOKIE}
    IN  IF ~HasValue(virtualCookie)
          THEN Step(TRUE, Unauthenticated, j, rd, {}, FALSE)
        ELSE IF data.threw
          THEN Step(TRUE, Unauthenticated, j, rd, {}, TRUE)
        ELSE IF data.null \/ ~isAuthenticatedOf(data.data) \/ ~userInfoOf(data.data).defined
          THEN Step(TRUE, Unauthenticated, j, rd, {}, FALSE)
        ELSE IF "isVirtual" \notin DOMAIN data.data
          THEN Step(TRUE, Unauthenticated, j, rd, {}, FALSE)
        ELSE IF ~data.data.isVirtual
          THEN Step(TRUE, Unauthenticated, j, rd, {}, FALSE)
        ELSE IF data.data.userInfo.exp # 0 /\ data.data.userInfo.exp < t
          THEN Step(TRUE, Unauthenticated, clearVirtualUser(j), rd, rd, FALSE)
        ELSE Step(FALSE, AuthContext(TRUE, FALSE, TRUE, data.data.userInfo, FALSE),
                  j, rd, {}, FALSE)

getVirtualUser(j, env, t) ==
    LET virtualCookie == j[VIRTUAL_USER_COOKIE]
        data == decryptSession(virtualCookie, env, t)
        rd == {VIRTUAL_USER_COOKIE}
    IN  IF ~HasValue(virtualCookie)
          THEN Step(TRUE, Unauthenticated, j, rd, {}, FALSE)
        ELSE IF data.threw   \* an exception of decryptSession is not caught here
          THEN Step(TRUE, Unauthenticated, j, rd, {}, TRUE)
        ELSE IF data.null \/ ~isAuthenticatedOf(data.data) \/ ~userInfoOf(data.data).defined
          THEN Step(TRUE, Unauthenticated, j, rd, {}, FALSE)
        ELSE IF data.data.userInfo.exp # 0 /\ data.data.userInfo.exp < t
          THEN Step(TRUE, Unauthenticated, clearVirtualUser(j), rd, rd, FALSE)
        ELSE Step(FALSE, AuthContext(TRUE, FALSE, TRUE, data.data.userInfo, FALSE),
                  j, rd, {}, FALSE)

\* logtoClient.getLogtoContext({ fetchUserInfo: true }): the provider client is
\* opaque; prov is what it answers for this client
ProviderOutcomes ==
    {"authenticated", "authenticatedNoUserInfo", "unauthenticated", "throws"}

getLogtoContext(prov) ==
    [threw |-> prov = "throws",
     isAuthenticated |-> prov \in {"authenticated", "authenticatedNoUserInfo"},
     userInfo |-> IF prov = "authenticated" THEN ProviderUserInfo ELSE NoUserInfo]

\* what getUser returns: the context, the jar it leaves, its effects
Resolved(ctx, j, reads, deletes, calls, threw) ==
    [context |-> ctx, jar |-> j, reads |-> reads, deletes |-> deletes,
     providerCalls |-> calls, threw |-> threw]

\* tier 3 of getUser: try { getLogtoContext ... } catch { log }
providerTier(prov) ==
    LET context == getLogtoContext(prov)
    IN  IF ~context.threw /\ context.isAuthenticated /\ context.userInfo.defined
          THEN AuthContext(TRUE, FALSE, FALSE, context.userInfo, TRUE)
          ELSE Unauthenticated

getUser_ProviderFirst(enable, env, j, prov, t) ==
    IF ~shouldEnforceAuth(enable)
      THEN Resolved(getMockDevUser(t), j, {}, {}, 0, FALSE)
    ELSE IF providerTier(prov).isAuthenticated
      THEN Resolved(providerTier(prov), j, {}, {}, 1, FALSE)
    ELSE LET virtualUser == getVirtualUser(j, env, t)
         IN  Resolved(virtualUser.user, virtualUser.jar, virtualUser.reads,
                      virtualUser.deletes, 1, virtualUser.threw)

getUser_NoCatch(enable, env, j, prov, t) ==
    IF ~shouldEnforceAuth(enable)
      THEN Resolved(getMockDevUser(t), j, {}, {}, 0, FALSE)
    ELSE LET virtualUser == getVirtualUser(j, env, t)
         IN  IF virtualUser.threw \/ ~virtualUser.isNull
               THEN Resolved(virtualUser.user, virtualUser.jar, virtualUser.reads,
                             virtualUser.deletes, 0, virtualUser.threw)
               ELSE Resolved(providerTier(prov), virtualUser.jar, virtualUser.reads,
                             virtualUser.deletes, 1, getLogtoContext(prov).threw)

getUser_CookiesFirst(enable, env, j, prov, t) ==
    LET virtualUser == getVirtualUser(j, env, t)
    IN  IF ~shouldEnforceAuth(enable)
          THEN Resolved(getMockDevUser(t), virtualUser.jar, virtualUser.reads,
                        virtualUser.deletes, 0, FALSE)
        ELSE IF virtualUser.threw \/ ~virtualUser.isNull
          THEN Resolved(virtualUser.user, virtualUser.jar, virtualUser.reads,
                        virtualUser.deletes, 0, virtualUser.threw)
        ELSE Resolved(providerTier(prov), virtualUser.jar, virtualUser.reads,
                      virtualUser.deletes, 1, FALSE)

getUser(enable, env, j, prov, t) ==
    IF ~shouldEnforceAuth(enable)
      THEN Resolved(getMockDevUser(t), j, {}, {}, 0, FALSE)
    ELSE LET virtualUser == getVirtualUser(j, env, t)
         IN  IF virtualUser.threw \/ ~virtualUser.isNull
               THEN Resolved(virtualUser.user, virtualUser.jar, virtualUser.reads,
                             virtualUser.deletes, 0, virtualUser.threw)
               ELSE Resolved(providerTier(prov), virtualUser.jar, virtualUser.reads,
                             virtualUser.deletes, 1, FALSE)

-----------------------------------------------------------------------------
(* Edge Gate: src/middleware.ts *)

\* pathname.startsWith(route)
startsWith(pathname, route) ==
    /\ Len(route) <= Len(pathname)
    /\ SubSeq(pathname, 1, Len(route)) = route

matchesRoute(pathname, routes) ==
    \E route \in routes : startsWith(pathname, route)

\* config.matcher: the framework runs the middleware on a pathname only when
\* '/((?!_next/static|_next/image|favicon.ico|.*\.(?:svg|png|jpg|jpeg|gif|webp)$).*)'
\* matches it
ASSET_SUFFIXES == {".svg", ".png", ".jpg", ".jpeg", ".gif", ".webp"}

config_matcher(pathname) ==
    /\ Len(pathname) >= 1
    /\ pathname[1] = "/"
    /\ LET rest == Tail(pathname)
       IN  /\ ~startsWith(rest, <<"_next", "/", "static">>)
           /\ ~startsWith(rest, <<"_next", "/", "image">>)
           /\ ~startsWith(rest, <<"favicon.ico">>)
           /\ ~(Len(rest) >= 1 /\ rest[Len(rest)] \in ASSET_SUFFIXES)

\* URLSearchParams serialisation of a value: "/" becomes "%2F"; letters, digits,
\* "-", "_" and "." stay
encodeParam(value) ==
    [i \in DOMAIN value |-> IF value[i] = "/" THEN "%2F" ELSE value[i]]

\* what the receiver of the URL reads back
decodeParam(value) ==
    [i \in DOMAIN value |-> IF value[i] = "%2F" THEN "/" ELSE value[i]]

NoBody == [error |-> "", message |-> "", code |-> 0]
NoLocation == [pathname |-> <<>>, redirectTo |-> <<>>]

\* a response of the gate, with the cookies it read to produce it
Response(kind, status, body, location, reads) ==
    [kind |-> kind, status |-> status, body |-> body, location |-> location,
     reads |-> reads]

\* NextResponse.next(): the request goes on to its handler
NextResponse_next(reads) == Response("next", 0, NoBody, NoLocation, reads)

\* NextResponse.json({error, message, code}, {status: 401}); the message is
\* the source's Chinese for "please sign in first"
NextResponse_json401(reads) ==
    Response("json", 401,
             [error |-> "Unauthorized", message |-> "please sign in first",
              code |-> 401],
             NoLocation, reads)

\* NextResponse.redirect(signInUrl), a 307 to /api/auth/sign-in?redirectTo=...
NextResponse_redirect(pathname, reads) ==
    Response("redirect", 307, NoBody,
             [pathname |-> AUTH_ROUTES_signIn, redirectTo |-> encodeParam(pathname)],
             reads)

\* verifySession's result and the cookies it read
Verified(ok, reads) == [ok |-> ok, reads |-> reads]

verifySession(j, env, t) ==
    LET logtoSession == j[LOGTO_SESSION_COOKIE]
        virtualUser == j[VIRTUAL_USER_COOKIE]
    IN  IF HasValue(logtoSession) /\ jwtVerify(logtoSession, middlewareSecret(env), t)
          THEN Verified(TRUE, {LOGTO_SESSION_COOKIE})
        ELSE IF HasValue(virtualUser) /\ jwtVerify(virtualUser, middlewareSecret(env), t)
          THEN Verified(TRUE, {LOGTO_SESSION_COOKIE, VIRTUAL_USER_COOKIE})
        ELSE Verified(FALSE, {LOGTO_SESSION_COOKIE, VIRTUAL_USER_COOKIE})

middleware_ProtectedFirst(pathname, enable, env, j, t) ==
    IF matchesRoute(pathname, PUBLIC_ROUTES)
      THEN NextResponse_next({})
    ELSE IF matchesRoute(pathname, PROTECTED_ROUTES)
      THEN LET isAuthenticated == verifySession(j, env, t)
           IN  IF ~isAuthenticated.ok
                 THEN IF startsWith(pathname, API_PREFIX)
                        THEN NextResponse_json401(isAuthenticated.reads)
                        ELSE NextResponse_redirect(pathname, isAuthenticated.reads)
                 ELSE NextResponse_next(isAuthenticated.reads)
    ELSE NextResponse_next({})

middleware_CheckAll(pathname, enable, env, j, t) ==
    IF matchesRoute(pathname, PUBLIC_ROUTES)
      THEN NextResponse_next({})
    ELSE IF ~shouldEnforceAuth(enable)
      THEN NextResponse_next({})
    ELSE LET isAuthenticated == verifySession(j, env, t)
         IN  IF ~isAuthenticated.ok
               THEN IF startsWith(pathname, API_PREFIX)
                      THEN NextResponse_json401(isAuthenticated.reads)
                      ELSE NextResponse_redirect(pathname, isAuthenticated.reads)
               ELSE NextResponse_next(isAuthenticated.reads)

middleware(pathname, enable, env, j, t) ==
    IF matchesRoute(pathname, PUBLIC_ROUTES)
      THEN NextResponse_next({})
    ELSE IF ~shouldEnforceAuth(enable)
      THEN NextResponse_next({})
    ELSE IF matchesRoute(pathname, PROTECTED_ROUTES)
      THEN LET isAuthenticated == verifySession(j, env, t)
           IN  IF ~isAuthenticated.ok
                 THEN IF startsWith(pathname, API_PREFIX)
                        THEN NextResponse_json401(isAuthenticated.reads)
                        ELSE NextResponse_redirect(pathname, isAuthenticated.reads)
                 ELSE NextResponse_next(isAuthenticated.reads)
    ELSE NextResponse_next({})

-----------------------------------------------------------------------------
(* The state machine *)

\* the values the two environment variables take
EnableValues == {"true", "false", ""}
SecretValues == {"", "k1"}

\* the keys a presented token may be signed with
SignKeys == {"k1", CONFIG_DEFAULT_SECRET, MIDDLEWARE_DEFAULT_SECRET}

\* the tokens a client may present in the virtual_user cookie: none, not a
\* JWT, signed with each key, expired, with an expired or undated profile,
\* without a profile, not authenticated, altered after signing
VirtualPool ==
    {NoCookie, EmptyValue, Garbage}
      \cup {Jwt(k, TRUE, Far, VirtualClaims(Far)) : k \in SignKeys}
      \cup {Jwt("k1", TRUE, 1, VirtualClaims(Far))}
      \cup {Jwt("k1", TRUE, Far, c) :
              c \in {VirtualClaims(0), VirtualClaims(1), NoProfileClaims,
                     NotAuthenticatedClaims}}
      \cup {Jwt("k1", FALSE, Far, VirtualClaims(Far))}

\* the tokens a client may present in the logto_session cookie
LogtoPool ==
    {NoCookie, Garbage}
      \cup {Jwt(k, TRUE, Far, ProviderClaims) : k \in SignKeys}
      \cup {Jwt("k1", TRUE, 1, ProviderClaims), Jwt("k1", FALSE, Far, ProviderClaims)}

\* the pathnames requested
Paths ==
    { <<"/", "chat">>,
      <<"/", "chat", "room">>,
      <<"/", "api", "/", "chat">>,
      <<"/", "api", "/", "upload", "/", "x", ".png">>,
      <<"/", "chat", "/", "x", ".png">>,
      <<"/", "api", "/", "auth", "/", "sign-in">>,
      <<"/", "api", "/", "other">> }

\* the record of the last operation: what was asked (op, path, the jar and the
\* provider state of the request, the time) and what came back
Result(op, path, at, reqJar, resJar, kind, status, body, location, context, decoded, calls, reads, deletes, threw) ==
    [op |-> op, path |-> path, at |-> at, reqJar |-> reqJar, resJar |-> resJar,
     provider |-> provider, kind |-> kind, status |-> status, body |-> body,
     location |-> location, context |-> context, decoded |-> decoded,
     providerCalls |-> calls, reads |-> reads, deletes |-> deletes,
     threw |-> threw]

Init ==
    /\ LOGTO_ENABLE \in EnableValues
    /\ LOGTO_COOKIE_SECRET \in SecretValues
    /\ LOGTO_BASE_URL = ""
    /\ now = 0
    /\ \E l \in LogtoPool, v \in VirtualPool :
          jar = [c \in CookieNames |->
                    IF c = LOGTO_SESSION_COOKIE THEN l
                    ELSE IF c = VIRTUAL_USER_COOKIE THEN v
                    ELSE NoCookie]
    /\ provider \in ProviderOutcomes
    /\ resp = Result("none", <<>>, 0, jar, jar, "none", 0, NoBody, NoLocation,
                     Unauthenticated, Null, 0, {}, {}, FALSE)

\* time passes
Tick ==
    /\ now < MaxTime
    /\ now' = now + 1
    /\ UNCHANGED <<LOGTO_ENABLE, LOGTO_COOKIE_SECRET, LOGTO_BASE_URL, jar, provider, resp>>

\* a handler calls getUser()
GetUser ==
    LET r == getUser(LOGTO_ENABLE, LOGTO_COOKIE_SECRET, jar, provider, now)
    IN  /\ jar' = r.jar
        /\ resp' = Result("getUser", <<>>, now, jar, r.jar,
                          IF r.threw THEN "throw" ELSE "context", 0, NoBody,
                          NoLocation, r.context, Null, r.providerCalls, r.reads,
                          r.deletes, r.threw)
        /\ UNCHANGED <<LOGTO_ENABLE, LOGTO_COOKIE_SECRET, LOGTO_BASE_URL, now, provider>>

\* getLogtoSession(): src/lib/auth/index.ts 209-223
getLogtoSession(j, env, t) ==
    IF ~HasValue(j[LOGTO_SESSION_COOKIE])
      THEN Null
      ELSE decryptSession(j[LOGTO_SESSION_COOKIE], env, t)

\* a handler calls getLogtoSession()
GetLogtoSession ==
    LET d == getLogtoSession(jar, LOGTO_COOKIE_SECRET, now)
    IN  /\ resp' = Result("getLogtoSession", <<>>, now, jar, jar,
                          IF d.threw THEN "throw" ELSE "decoded", 0, NoBody,
                          NoLocation, Unauthenticated, d, 0,
                          {LOGTO_SESSION_COOKIE}, {}, d.threw)
        /\ UNCHANGED <<LOGTO_ENABLE, LOGTO_COOKIE_SECRET, LOGTO_BASE_URL, now, jar, provider>>

\* a request for a pathname the matcher matches: the middleware answers it
Middleware(pathname) ==
    /\ config_matcher(pathname)
    /\ LET r == middleware(pathname, LOGTO_ENABLE, LOGTO_COOKIE_SECRET, jar, now)
       IN  resp' = Result("middleware", pathname, now, jar, jar, r.kind, r.status,
                          r.body, r.location, Unauthenticated, Null, 0, r.reads,
                          {}, FALSE)
    /\ UNCHANGED <<LOGTO_ENABLE, LOGTO_COOKIE_SECRET, LOGTO_BASE_URL, now, jar, provider>>

\* a request for a pathname the matcher excludes: the middleware is not run and
\* the request goes on to its handler
Unmatched(pathname) ==
    /\ ~config_matcher(pathname)
    /\ resp' = Result("unmatched", pathname, now, jar, jar, "next", 0, NoBody,
                      NoLocation, Unauthenticated, Null, 0, {}, {}, FALSE)
    /\ UNCHANGED <<LOGTO_ENABLE, LOGTO_COOKIE_SECRET, LOGTO_BASE_URL, now, jar, provider>>

Next ==
    \/ Tick
    \/ GetUser
    \/ GetLogtoSession
    \/ \E pathname \in Paths : Middleware(pathname)
    \/ \E pathname \in Paths : Unmatched(pathname)

Spec == Init /\ [][Next]_vars

-----------------------------------------------------------------------------
(* What the claims speak of, stated over a request and not over the code *)

Enforced == LOGTO_ENABLE = "true"

\* the one secret the configuration provides to both checkpoints
SharedSecret == OrElse(LOGTO_COOKIE_SECRET, CONFIG_DEFAULT_SECRET)

\* tok is a JWT signed with secret, unaltered and not expired at time t
SignedAndFresh(tok, secret, t) ==
    tok.form = "jwt" /\ tok.sig /\ tok.key = secret /\ tok.exp > t

\* tok is a valid virtual-user cookie at time t: signed and fresh, and holding
\* virtual session claims whose profile has not expired
ValidVirtualCookie(tok, t) ==
    /\ SignedAndFresh(tok, SharedSecret, t)
    /\ tok.payload.isAuthenticated
    /\ tok.payload.isVirtual
    /\ tok.payload.userInfo.defined
    /\ (tok.payload.userInfo.exp = 0 \/ tok.payload.userInfo.exp >= t)

\* tok is present but malformed, wrongly signed or expired at time t
UndecodableCookie(tok, t) ==
    \/ tok.form = "garbage"
    \/ tok.form = "jwt" /\ (~tok.sig \/ tok.key # SharedSecret \/ tok.exp <= t)

-----------------------------------------------------------------------------
(* Identity Resolver claims *)

\* C1: with enforcement ON, when the request carries a valid virtual-user
\* cookie and the provider reports an authenticated session, getUser returns
\* the Virtual identity built from the cookie's profile and not the
\* provider's identity
C1_VirtualBeforeProvider ==
    ( /\ resp.op = "getUser"
      /\ Enforced
      /\ ValidVirtualCookie(resp.reqJar[VIRTUAL_USER_COOKIE], resp.at)
      /\ resp.provider = "authenticated" )
    => /\ resp.kind = "context"
       /\ resp.context.isAuthenticated
       /\ resp.context.isVirtual
       /\ ~resp.context.hasClaims
       /\ resp.context.userInfo = resp.reqJar[VIRTUAL_USER_COOKIE].payload.userInfo
       /\ resp.context.userInfo # ProviderUserInfo

\* C1 witness: getUser has answered such a request, which also carried a
\* valid logto_session cookie
C1_Witness ==
    /\ resp.op = "getUser"
    /\ Enforced
    /\ ValidVirtualCookie(resp.reqJar[VIRTUAL_USER_COOKIE], resp.at)
    /\ SignedAndFresh(resp.reqJar[LOGTO_SESSION_COOKIE], SharedSecret, resp.at)
    /\ resp.provider = "authenticated"
    /\ resp.context.isVirtual

\* C2: with enforcement OFF, getUser returns the Mock identity whatever the
\* jar holds, calls the provider client never, reads no cookie and leaves the
\* jar as it was
C2_MockOverride ==
    (resp.op = "getUser" /\ ~Enforced)
    => /\ resp.kind = "context"
       /\ resp.context.isAuthenticated
       /\ resp.context.isMock
       /\ ~resp.context.isVirtual
       /\ resp.context.userInfo.sub = "mock-user-id"
       /\ resp.providerCalls = 0
       /\ resp.reads = {}
       /\ resp.deletes = {}
       /\ resp.resJar = resp.reqJar

\* C2 witness: the Mock identity was returned to a request whose virtual_user
\* cookie is correctly signed with an expired profile (the cookie the resolver
\* would delete had it read it) while the provider would have thrown
C2_Witness ==
    /\ resp.op = "getUser"
    /\ ~Enforced
    /\ SignedAndFresh(resp.reqJar[VIRTUAL_USER_COOKIE], SharedSecret, resp.at)
    /\ resp.reqJar[VIRTUAL_USER_COOKIE].payload.userInfo.exp \in 1..(resp.at - 1)
    /\ resp.provider = "throws"
    /\ resp.context.isMock

-----------------------------------------------------------------------------
(* Edge Gate claims.  The Edge Gate is the middleware together with the    *)
(* matcher that decides on which pathnames the middleware runs; a request   *)
(* is answered either by the middleware or, the matcher excluding its      *)
(* pathname, by nobody (it goes on to its handler).                        *)

GateOps == {"middleware", "unmatched"}

Protected(pathname) == matchesRoute(pathname, PROTECTED_ROUTES)
Public(pathname) == matchesRoute(pathname, PUBLIC_ROUTES)
UnderApi(pathname) == startsWith(pathname, API_PREFIX)

\* the gate's own check of one cookie value at time t
GateVerifies(tok, t) ==
    HasValue(tok) /\ SignedAndFresh(tok, middlewareSecret(LOGTO_COOKIE_SECRET), t)

SomeCookieVerifies(j, t) ==
    GateVerifies(j[LOGTO_SESSION_COOKIE], t) \/ GateVerifies(j[VIRTUAL_USER_COOKIE], t)

Is401(r) ==
    /\ r.kind = "json"
    /\ r.status = 401
    /\ r.body.error = "Unauthorized"
    /\ r.body.code = 401
    /\ r.body.message # ""

IsSignInRedirect(r) ==
    /\ r.kind = "redirect"
    /\ r.location.pathname = AUTH_ROUTES_signIn
    /\ decodeParam(r.location.redirectTo) = r.path

\* C4: with enforcement ON, a request to a protected pathname under /api/
\* that carries no cookie that verifies is answered 401 {error, message,
\* code} and does not reach its handler
C4_ApiUnauthorized ==
    ( /\ resp.op \in GateOps
      /\ Enforced
      /\ Protected(resp.path)
      /\ UnderApi(resp.path)
      /\ ~SomeCookieVerifies(resp.reqJar, resp.at) )
    => Is401(resp)

\* C4, for the requests the middleware is run on
Gate_ApiUnauthorized ==
    ( /\ resp.op = "middleware"
      /\ Enforced
      /\ Protected(resp.path)
      /\ UnderApi(resp.path)
      /\ ~SomeCookieVerifies(resp.reqJar, resp.at) )
    => Is401(resp)

\* C5: with enforcement ON, a request to a protected pathname not under
\* /api/ that carries no cookie that verifies is answered by a redirect to
\* /api/auth/sign-in whose redirectTo parameter reads back as the pathname
C5_PageRedirect ==
    ( /\ resp.op \in GateOps
      /\ Enforced
      /\ Protected(resp.path)
      /\ ~UnderApi(resp.path)
      /\ ~SomeCookieVerifies(resp.reqJar, resp.at) )
    => IsSignInRedirect(resp)

\* C5, for the requests the middleware is run on
Gate_PageRedirect ==
    ( /\ resp.op = "middleware"
      /\ Enforced
      /\ Protected(resp.path)
      /\ ~UnderApi(resp.path)
      /\ ~SomeCookieVerifies(resp.reqJar, resp.at) )
    => /\ IsSignInRedirect(resp)
       /\ resp.status = 307

\* C6: with enforcement ON and a protected pathname, the request passes
\* exactly when the logto_session cookie or the virtual_user cookie verifies;
\* the virtual_user cookie is read only after the logto_session cookie failed
C6_AdmitIffVerified ==
    (resp.op \in GateOps /\ Enforced /\ Protected(resp.path))
    => /\ resp.kind = "next" <=> SomeCookieVerifies(resp.reqJar, resp.at)
       /\ LOGTO_SESSION_COOKIE \in resp.reads
       /\ VIRTUAL_USER_COOKIE \in resp.reads
            <=> ~GateVerifies(resp.reqJar[LOGTO_SESSION_COOKIE], resp.at)

\* C6, for the requests the middleware is run on
Gate_AdmitIffVerified ==
    (resp.op = "middleware" /\ Enforced /\ Protected(resp.path))
    => /\ resp.kind = "next" <=> SomeCookieVerifies(resp.reqJar, resp.at)
       /\ LOGTO_SESSION_COOKIE \in resp.reads
       /\ VIRTUAL_USER_COOKIE \in resp.reads
            <=> ~GateVerifies(resp.reqJar[LOGTO_SESSION_COOKIE], resp.at)

\* C7: with enforcement OFF every request passes, whatever its pathname and
\* cookies; none is answered 401 or redirected
C7_EnforcementOffPassesAll ==
    (resp.op \in GateOps /\ ~Enforced)
    => /\ resp.kind = "next"
       /\ resp.status \notin {401, 307}
       /\ resp.location = NoLocation

\* C7 witness: with enforcement OFF the middleware let a request to a
\* protected pathname pass that carried no cookie that verifies
C7_Witness ==
    /\ resp.op = "middleware"
    /\ ~Enforced
    /\ Protected(resp.path)
    /\ ~SomeCookieVerifies(resp.reqJar, resp.at)
    /\ HasValue(resp.reqJar[LOGTO_SESSION_COOKIE])
    /\ resp.kind = "next"

\* C8: whatever the enforcement setting and the cookies, a request whose
\* pathname starts with a public prefix, or with neither a public nor a
\* protected prefix, passes and no cookie is read for it
C8_UnprotectedPassesUnchecked ==
    (resp.op \in GateOps /\ (Public(resp.path) \/ ~Protected(resp.path)))
    => /\ resp.kind = "next"
       /\ resp.reads = {}

\* C8 witness: with enforcement ON the middleware let a request pass whose
\* pathname starts with neither kind of prefix and that carried no cookie
\* that verifies
C8_Witness ==
    /\ resp.op = "middleware"
    /\ Enforced
    /\ ~Public(resp.path)
    /\ ~Protected(resp.path)
    /\ ~SomeCookieVerifies(resp.reqJar, resp.at)
    /\ resp.kind = "next"
    /\ resp.reads = {}

\* C9: for every cookie value and every configuration the middleware admits
\* a protected request on its logto_session cookie exactly when the Session
\* Codec decodes that cookie to a non-null payload
C9_GateAgreesWithDecode ==
    ( /\ resp.op = "middleware"
      /\ Enforced
      /\ Protected(resp.path)
      /\ ~HasValue(resp.reqJar[VIRTUAL_USER_COOKIE]) )
    => ( resp.kind = "next"
           <=> ~getLogtoSession(resp.reqJar, LOGTO_COOKIE_SECRET, resp.at).null )

\* C9, for the configurations that set LOGTO_COOKIE_SECRET
Gate_AgreesWithDecodeWhenSecretSet ==
    ( /\ resp.op = "middleware"
      /\ LOGTO_COOKIE_SECRET # ""
      /\ Enforced
      /\ Protected(resp.path)
      /\ ~HasValue(resp.reqJar[VIRTUAL_USER_COOKIE]) )
    => ( resp.kind = "next"
           <=> ~getLogtoSession(resp.reqJar, LOGTO_COOKIE_SECRET, resp.at).null )

\* C10: decoding a malformed, a wrongly signed and an expired token returns
\* null and does not throw; with enforcement ON getUser answers a request
\* whose virtual_user cookie holds such a token with the context it returns
\* for the same request without that cookie
C10_DecodeFailureIsAbsence ==
    /\ (resp.op = "getLogtoSession"
          /\ UndecodableCookie(resp.reqJar[LOGTO_SESSION_COOKIE], resp.at))
       => (resp.decoded = Null /\ ~resp.threw)
    /\ (resp.op = "getUser" /\ Enforced
          /\ UndecodableCookie(resp.reqJar[VIRTUAL_USER_COOKIE], resp.at))
       => /\ ~resp.threw
          /\ resp.context =
               getUser(LOGTO_ENABLE, LOGTO_COOKIE_SECRET,
                       [resp.reqJar EXCEPT ![VIRTUAL_USER_COOKIE] = NoCookie],
                       resp.provider, resp.at).context

\* C10 witness: getUser answered a request whose virtual_user cookie is
\* correctly signed but expired with the provider's identity, as it does
\* without the cookie
C10_Witness ==
    /\ resp.op = "getUser"
    /\ Enforced
    /\ resp.reqJar[VIRTUAL_USER_COOKIE].form = "jwt"
    /\ resp.reqJar[VIRTUAL_USER_COOKIE].sig
    /\ resp.reqJar[VIRTUAL_USER_COOKIE].key = SharedSecret
    /\ resp.reqJar[VIRTUAL_USER_COOKIE].exp <= resp.at
    /\ resp.provider = "authenticated"
    /\ resp.context.isAuthenticated
    /\ ~resp.context.isVirtual
    /\ resp.context.userInfo = ProviderUserInfo

-----------------------------------------------------------------------------
(* Session Codec, encoding: src/lib/auth/index.ts 140-146 *)

\* setExpirationTime('30d'), in seconds
THIRTY_DAYS == 2592000

\* new SignJWT(data).setIssuedAt().setExpirationTime('30d'): the payload is
\* data with the keys iat and exp set (a key iat or exp of data is replaced)
SignJWT_payload_RegisteredOnly(data, t) ==
    [k \in {"iat", "exp"} |-> IF k = "iat" THEN t ELSE t + THIRTY_DAYS]

SignJWT_payload(data, t) ==
    [k \in DOMAIN data \cup {"iat", "exp"} |->
        IF k = "iat" THEN t
        ELSE IF k = "exp" THEN t + THIRTY_DAYS
        ELSE data[k]]

\* encryptSession(data): the payload signed with getSecretKey()
encryptSession(data, env, t) ==
    Jwt(getSecretKey(env), TRUE, t + THIRTY_DAYS, SignJWT_payload(data, t))

-----------------------------------------------------------------------------
(* The codec on its own: what is encoded, what happens to the token, and   *)
(* what decryptSession makes of it                                         *)

\* the mappings the three callers of encryptSession pass: setAuthError,
\* setLogtoSession, setVirtualUser
SessionClaims ==
    { [errorMessage |-> "sign-in failed"],
      [isAuthenticated |-> TRUE, userInfo |-> ProviderUserInfo],
      [isAuthenticated |-> TRUE, isVirtual |-> TRUE,
       userInfo |-> VirtualUserInfo("virtual-user", Far), lastVerified |-> 0] }

\* the instants looked at: the first seconds, and the seconds around the
\* expiry of a token encoded in the first seconds
CodecTimes == (0..MaxTime) \cup {THIRTY_DAYS + d : d \in -1..MaxTime}

\* the secret of another process configuration
OTHER_SECRET == "k2"

\* the ways a token is altered after signing: a bit of the signature, the
\* exp of the payload moved thirty days on, the token cut short
Alterations == {"signature", "expiry", "truncated"}

alter(tok, how) ==
    IF how = "truncated" THEN Garbage
    ELSE IF how = "expiry"
      THEN Jwt(tok.key, FALSE, tok.exp + THIRTY_DAYS,
               [tok.payload EXCEPT !["exp"] = tok.exp + THIRTY_DAYS])
    ELSE Jwt(tok.key, FALSE, tok.exp, tok.payload)

\* the codec's record: the mapping encoded, the key and the time it was
\* encoded with, the token as it is now, how it was altered ("" when it was
\* not), and the last decode with its time
Coded(op, data, key, at, token, altered, decodedAt, decoded) ==
    [op |-> op, data |-> data, key |-> key, at |-> at, token |-> token,
     altered |-> altered, decodedAt |-> decodedAt, decoded |-> decoded]

EmptyJar == [c \in CookieNames |-> NoCookie]

CodecInit ==
    /\ LOGTO_ENABLE = "true"
    /\ LOGTO_COOKIE_SECRET \in SecretValues
    /\ LOGTO_BASE_URL = ""
    /\ now = 0
    /\ jar = EmptyJar
    /\ provider = "unauthenticated"
    /\ resp = Coded("none", [errorMessage |-> ""], "", 0, NoCookie, "", 0, Null)

\* time passes, by seconds or by the lifetime of a token
CodecTick(t) ==
    /\ t > now
    /\ now' = t
    /\ UNCHANGED <<LOGTO_ENABLE, LOGTO_COOKIE_SECRET, LOGTO_BASE_URL, jar, provider, resp>>

\* this process encodes a mapping
EncryptSession(data) ==
    /\ resp' = Coded("encryptSession", data, getSecretKey(LOGTO_COOKIE_SECRET),
                     now, encryptSession(data, LOGTO_COOKIE_SECRET, now), "",
                     now, Null)
    /\ UNCHANGED <<LOGTO_ENABLE, LOGTO_COOKIE_SECRET, LOGTO_BASE_URL, now, jar, provider>>

\* the same code encodes a mapping under another secret
EncryptSessionElsewhere(data) ==
    /\ resp' = Coded("encryptSession", data, getSecretKey(OTHER_SECRET), now,
                     encryptSession(data, OTHER_SECRET, now), "", now, Null)
    /\ UNCHANGED <<LOGTO_ENABLE, LOGTO_COOKIE_SECRET, LOGTO_BASE_URL, now, jar, provider>>

\* the holder of the token alters it
AlterToken(how) ==
    /\ resp.token.form = "jwt"
    /\ resp.altered = ""
    /\ resp' = [resp EXCEPT !.op = "alter", !.token = alter(resp.token, how),
                            !.altered = how]
    /\ UNCHANGED <<LOGTO_ENABLE, LOGTO_COOKIE_SECRET, LOGTO_BASE_URL, now, jar, provider>>

\* this process decodes the token
DecryptSession ==
    /\ HasValue(resp.token)
    /\ resp' = [resp EXCEPT !.op = "decryptSession", !.decodedAt = now,
                            !.decoded = decryptSession(resp.token,
                                                       LOGTO_COOKIE_SECRET, now)]
    /\ UNCHANGED <<LOGTO_ENABLE, LOGTO_COOKIE_SECRET, LOGTO_BASE_URL, now, jar, provider>>

CodecNext ==
    \/ \E t \in CodecTimes : CodecTick(t)
    \/ \E data \in SessionClaims : EncryptSession(data)
    \/ \E data \in SessionClaims : EncryptSessionElsewhere(data)
    \/ \E how \in Alterations : AlterToken(how)
    \/ DecryptSession

CodecSpec == CodecInit /\ [][CodecNext]_vars

-----------------------------------------------------------------------------
(* Session Codec claims *)

\* the last operation decoded a token this process encoded and nobody altered
DecodedOwnToken ==
    /\ resp.op = "decryptSession"
    /\ resp.altered = ""
    /\ resp.key = getSecretKey(LOGTO_COOKIE_SECRET)

C13_Expiry ==
    DecodedOwnToken
    => /\ (resp.token.exp <= resp.decodedAt => resp.decoded = Null)
       /\ (resp.decoded.null <=> resp.decodedAt >= resp.at + THIRTY_DAYS)

\* C13 witness: a token was decoded at the very second of its expiry and
\* refused
C13_Witness ==
    /\ DecodedOwnToken
    /\ resp.decodedAt = resp.token.exp
    /\ resp.decoded = Null

-----------------------------------------------------------------------------
(* Session Lifecycle Operations: src/lib/auth/index.ts 192-231, 303-311,  *)
(* 418-496                                                                 *)

\* A URL is a sequence of pieces, the origin first; the pathnames are those
\* of the Edge Gate.
CONFIG_DEFAULT_BASE_URL == "http://localhost:3000"

\* CONFIG.baseUrl
CONFIG_baseUrl(env) == <<OrElse(env, CONFIG_DEFAULT_BASE_URL)>>

AUTH_ROUTES_home == <<"/">>

\* the origins met, and those of them that end in a port
Origins ==
    {CONFIG_DEFAULT_BASE_URL, "https://app.example.com", "https://logto.example"}
OriginsWithPort == {CONFIG_DEFAULT_BASE_URL}

\* the URL parser accepts the concatenation of the pieces: after a port only
\* "/", "?" or "#" may follow (after a host name, further text extends the
\* host name)
canParseURL(url) ==
    /\ Len(url) > 0
    /\ url[1] \in Origins
    /\ (url[1] \in OriginsWithPort /\ Len(url) > 1) => url[2] \in {"/", "?", "#"}

\* COOKIE_CONFIG.maxAge and the maxAge of the auth_error cookie, in seconds
COOKIE_CONFIG_maxAge == 2592000
AUTH_ERROR_maxAge == 60

\* the user-facing messages (the source has them in Chinese)
SIGN_IN_SERVICE_ERROR == "the sign-in service is failing, try again later"
SIGN_IN_FAILED == "sign-in failed, try again later"
CANNOT_REACH_SERVER == "cannot reach the authentication server, check the network"

\* one effect of a handler: a cookie read, set or deleted, a provider client
\* method called
Did(act, what, maxAge) == [act |-> act, what |-> what, maxAge |-> maxAge]

\* a thrown value: an Error with its message (a sequence of pieces), or
\* something that is no Error
Thrown_Error(isError, message) == [isError |-> isError, message |-> message]
NoError == Thrown_Error(FALSE, <<>>)
TypeError_InvalidURL == Thrown_Error(TRUE, <<"Invalid URL">>)

\* message.includes(piece)
includes(message, piece) == \E i \in 1..Len(message) : message[i] = piece

\* what a lifecycle operation returns: the Response (a redirect to location)
\* or an exception, the jar it leaves, its effects in order, and the error its
\* catch block caught
Outcome(threw, location, j, steps, caught, error) ==
    [threw |-> threw, kind |-> IF threw THEN "throw" ELSE "redirect",
     status |-> IF threw THEN 0 ELSE 302, location |-> location, jar |-> j,
     steps |-> steps, caught |-> caught, error |-> error]

\* setLogtoSession({ userInfo })
setLogtoSession(j, userInfo, env, t) ==
    [j EXCEPT ![LOGTO_SESSION_COOKIE] =
        encryptSession([userInfo |-> userInfo, isAuthenticated |-> TRUE], env, t)]

\* clearLogtoSession()
clearLogtoSession(j) == [j EXCEPT ![LOGTO_SESSION_COOKIE] = NoCookie]

\* setAuthError(errorMessage)
setAuthError(j, errorMessage, env, t) ==
    [j EXCEPT ![AUTH_ERROR_COOKIE] =
        encryptSession([errorMessage |-> errorMessage], env, t)]

\* what a provider client method does: return its value, or throw
ClientOutcomes == {"returns", "throws"}

ProviderSignInUrl == <<"https://logto.example", "/", "oidc", "/", "auth">>
ProviderSignOutUrl == <<"https://logto.example", "/", "oidc", "/", "session", "/", "end">>

\* signIn(postRedirectUri)
signIn_NoCatch(postRedirectUri, j, env, base, t, client, e) ==
    IF client = "returns"
      THEN Outcome(FALSE, ProviderSignInUrl, j,
                   <<Did("call", "handleSignIn", 0)>>, FALSE, NoError)
      ELSE Outcome(TRUE, <<>>, j, <<Did("call", "handleSignIn", 0)>>, FALSE, e)

signIn(postRedirectUri, j, env, base, t, client, e) ==
    IF client = "returns" /\ canParseURL(ProviderSignInUrl)
      THEN Outcome(FALSE, ProviderSignInUrl, j,
                   <<Did("call", "handleSignIn", 0)>>, FALSE, NoError)
      ELSE Outcome(FALSE, CONFIG_baseUrl(base),
                   setAuthError(j, SIGN_IN_SERVICE_ERROR, env, t),
                   <<Did("call", "handleSignIn", 0),
                     Did("set", AUTH_ERROR_COOKIE, AUTH_ERROR_maxAge)>>,
                   TRUE, e)

\* the effects of getVirtualUser() within signOut
virtualSteps(virtualUser) ==
    <<Did("read", VIRTUAL_USER_COOKIE, 0)>>
      \o (IF virtualUser.deletes = {} THEN <<>>
          ELSE <<Did("delete", VIRTUAL_USER_COOKIE, 0)>>)

signOut_catch_RedirectOnly(j, base, steps, e) ==
    Outcome(FALSE, CONFIG_baseUrl(base), j, steps, TRUE, e)

\* the catch block of signOut
signOut_catch(j, base, steps, e) ==
    Outcome(FALSE, CONFIG_baseUrl(base), clearVirtualUser(clearLogtoSession(j)),
            steps \o <<Did("delete", LOGTO_SESSION_COOKIE, 0),
                       Did("delete", VIRTUAL_USER_COOKIE, 0)>>,
            TRUE, e)

\* signOut()
signOut_ProviderAlways(j, env, base, t, client, e) ==
    LET virtualUser == getVirtualUser(j, env, t)
        s1 == virtualSteps(virtualUser)
        s2 == s1 \o <<Did("delete", LOGTO_SESSION_COOKIE, 0),
                      Did("call", "handleSignOut", 0)>>
    IN  IF client = "returns"
          THEN Outcome(FALSE, ProviderSignOutUrl,
                       clearLogtoSession(virtualUser.jar), s2, FALSE, NoError)
          ELSE signOut_catch(clearLogtoSession(virtualUser.jar), base, s2, e)

signOut_CallFirst(j, env, base, t, client, e) ==
    LET virtualUser == getVirtualUser(j, env, t)
        s1 == virtualSteps(virtualUser)
        s2 == s1 \o <<Did("call", "handleSignOut", 0),
                      Did("delete", LOGTO_SESSION_COOKIE, 0)>>
    IN  IF ~virtualUser.threw /\ ~virtualUser.isNull /\ virtualUser.user.isVirtual
          THEN Outcome(FALSE, CONFIG_baseUrl(base), clearVirtualUser(virtualUser.jar),
                       s1 \o <<Did("delete", VIRTUAL_USER_COOKIE, 0)>>, FALSE, NoError)
        ELSE IF client = "returns"
          THEN Outcome(FALSE, ProviderSignOutUrl,
                       clearLogtoSession(virtualUser.jar), s2, FALSE, NoError)
        ELSE signOut_catch(virtualUser.jar, base,
                           s1 \o <<Did("call", "handleSignOut", 0)>>, e)

signOut(j, env, base, t, client, e) ==
    LET virtualUser == getVirtualUser(j, env, t)
        s1 == virtualSteps(virtualUser)
        s2 == s1 \o <<Did("delete", LOGTO_SESSION_COOKIE, 0),
                      Did("call", "handleSignOut", 0)>>
    IN  IF virtualUser.threw
          THEN signOut_catch(virtualUser.jar, base, s1, e)
        ELSE IF ~virtualUser.isNull /\ virtualUser.user.isVirtual
          THEN Outcome(FALSE, CONFIG_baseUrl(base), clearVirtualUser(virtualUser.jar),
                       s1 \o <<Did("delete", VIRTUAL_USER_COOKIE, 0)>>, FALSE, NoError)
        ELSE IF client = "returns" /\ canParseURL(ProviderSignOutUrl)
          THEN Outcome(FALSE, ProviderSignOutUrl,
                       clearLogtoSession(virtualUser.jar), s2, FALSE, NoError)
        ELSE signOut_catch(clearLogtoSession(virtualUser.jar), base, s2, e)

\* the message handleCallback's catch block chooses for what it caught
errorMessage_AnyThrown(e) ==
    IF \/ includes(e.message, "fetch failed")
       \/ includes(e.message, "network")
       \/ includes(e.message, "ECONNREFUSED")
      THEN CANNOT_REACH_SERVER
      ELSE SIGN_IN_FAILED

errorMessage(e) ==
    IF /\ e.isError
       /\ \/ includes(e.message, "fetch failed")
          \/ includes(e.message, "network")
          \/ includes(e.message, "ECONNREFUSED")
      THEN CANNOT_REACH_SERVER
      ELSE SIGN_IN_FAILED

handleCallback_catch_RawMessage(j, env, base, t, steps, e) ==
    Outcome(FALSE, CONFIG_baseUrl(base),
            setAuthError(j, IF e.message = <<>> THEN SIGN_IN_FAILED ELSE e.message[1],
                         env, t),
            steps \o <<Did("set", AUTH_ERROR_COOKIE, AUTH_ERROR_maxAge)>>, TRUE, e)

\* the catch block of handleCallback
handleCallback_catch(j, env, base, t, steps, e) ==
    Outcome(FALSE, CONFIG_baseUrl(base), setAuthError(j, errorMessage(e), env, t),
            steps \o <<Did("set", AUTH_ERROR_COOKIE, AUTH_ERROR_maxAge)>>, TRUE, e)

\* handleCallback(request): client is what handleSignInCallback does,
\* postRedirectUri what it returns (<<>>: nothing), prov what getLogtoContext
\* answers, e what a failing provider call throws
handleCallback_StoreBeforeExchange(j, env, base, t, client, postRedirectUri, prov, e) ==
    LET context == getLogtoContext(prov)
        stored == context.isAuthenticated /\ context.userInfo.defined
        j1 == IF stored THEN setLogtoSession(j, context.userInfo, env, t) ELSE j
        s1 == <<Did("call", "handleSignInCallback", 0)>>
        s2 == s1 \o <<Did("call", "getLogtoContext", 0)>>
        s3 == s2 \o (IF stored
                       THEN <<Did("set", LOGTO_SESSION_COOKIE, COOKIE_CONFIG_maxAge)>>
                       ELSE <<>>)
        redirectTo == IF postRedirectUri = <<>> THEN AUTH_ROUTES_home
                                               ELSE postRedirectUri
        url == CONFIG_baseUrl(base) \o redirectTo
    IN  IF client = "throws"
          THEN handleCallback_catch(setLogtoSession(j, ProviderUserInfo, env, t),
                                    env, base, t, s1, e)
        ELSE IF context.threw THEN handleCallback_catch(j, env, base, t, s2, e)
        ELSE IF ~canParseURL(url)
          THEN handleCallback_catch(j1, env, base, t, s3, TypeError_InvalidURL)
        ELSE Outcome(FALSE, url, j1, s3, FALSE, NoError)

handleCallback(j, env, base, t, client, postRedirectUri, prov, e) ==
    LET context == getLogtoContext(prov)
        stored == context.isAuthenticated /\ context.userInfo.defined
        j1 == IF stored THEN setLogtoSession(j, context.userInfo, env, t) ELSE j
        s1 == <<Did("call", "handleSignInCallback", 0)>>
        s2 == s1 \o <<Did("call", "getLogtoContext", 0)>>
        s3 == s2 \o (IF stored
                       THEN <<Did("set", LOGTO_SESSION_COOKIE, COOKIE_CONFIG_maxAge)>>
                       ELSE <<>>)
        redirectTo == IF postRedirectUri = <<>> THEN AUTH_ROUTES_home
                                               ELSE postRedirectUri
        url == CONFIG_baseUrl(base) \o redirectTo
    IN  IF client = "throws" THEN handleCallback_catch(j, env, base, t, s1, e)
        ELSE IF context.threw THEN handleCallback_catch(j, env, base, t, s2, e)
        ELSE IF ~canParseURL(url)
          THEN handleCallback_catch(j1, env, base, t, s3, TypeError_InvalidURL)
        ELSE Outcome(FALSE, url, j1, s3, FALSE, NoError)

-----------------------------------------------------------------------------
(* The lifecycle operations as a state machine over one client's jar *)

BaseUrlValues == {"", "https://app.example.com"}

\* what the sign-in route passes on from its redirectTo parameter and the
\* callback gets back: nothing, a pathname, a relative path, another site
PostRedirects == { <<>>, <<"/", "chat">>, <<"chat">>, <<"https://evil.example">> }

\* what a failing provider call throws
Errors ==
    { Thrown_Error(TRUE, <<"TypeError: ", "fetch failed">>),
      Thrown_Error(TRUE, <<"network", " timeout">>),
      Thrown_Error(TRUE, <<"connect ", "ECONNREFUSED", " 127.0.0.1:3001">>),
      Thrown_Error(TRUE, <<"Network", " unreachable">>),
      Thrown_Error(TRUE, <<"invalid state">>),
      Thrown_Error(FALSE, <<"network">>) }

\* the cookies the client holds at the start
AuthLogtoPool == {NoCookie, Jwt("k1", TRUE, Far, ProviderClaims)}
AuthVirtualPool ==
    {NoCookie, Garbage, Jwt("k1", TRUE, Far, VirtualClaims(Far)),
     Jwt("k1", TRUE, Far, VirtualClaims(1))}

\* the record of the last lifecycle operation: the request (time, jar, what
\* the provider client does) and the outcome
Served(op, client, postRedirectUri, out) ==
    [op |-> op, at |-> now, reqJar |-> jar, provider |-> provider,
     client |-> client, postRedirectUri |-> postRedirectUri, resJar |-> out.jar,
     kind |-> out.kind, status |-> out.status, location |-> out.location,
     steps |-> out.steps, caught |-> out.caught, error |-> out.error,
     threw |-> out.threw]

\* the lifecycle operations do not read LOGTO_ENABLE; the secret is set
AuthInit ==
    /\ LOGTO_ENABLE = "true"
    /\ LOGTO_COOKIE_SECRET = "k1"
    /\ LOGTO_BASE_URL \in BaseUrlValues
    /\ now \in 0..MaxTime
    /\ \E l \in AuthLogtoPool, v \in AuthVirtualPool :
          jar = [c \in CookieNames |->
                    IF c = LOGTO_SESSION_COOKIE THEN l
                    ELSE IF c = VIRTUAL_USER_COOKIE THEN v
                    ELSE NoCookie]
    /\ provider \in ProviderOutcomes
    /\ resp = Served("none", "returns", <<>>,
                     Outcome(FALSE, <<>>, jar, <<>>, FALSE, NoError))

\* GET /api/auth/sign-in with enforcement ON
SignIn(postRedirectUri, client, e) ==
    LET out == signIn(postRedirectUri, jar, LOGTO_COOKIE_SECRET, LOGTO_BASE_URL,
                      now, client, e)
    IN  /\ resp' = Served("signIn", client, postRedirectUri, out)
        /\ jar' = IF out.threw THEN jar ELSE out.jar
        /\ UNCHANGED <<LOGTO_ENABLE, LOGTO_COOKIE_SECRET, LOGTO_BASE_URL, now, provider>>

\* GET /api/auth/sign-out
SignOut(client, e) ==
    LET out == signOut(jar, LOGTO_COOKIE_SECRET, LOGTO_BASE_URL, now, client, e)
    IN  /\ resp' = Served("signOut", client, <<>>, out)
        /\ jar' = IF out.threw THEN jar ELSE out.jar
        /\ UNCHANGED <<LOGTO_ENABLE, LOGTO_COOKIE_SECRET, LOGTO_BASE_URL, now, provider>>

\* GET /api/auth/callback
HandleCallback(client, postRedirectUri, e) ==
    LET out == handleCallback(jar, LOGTO_COOKIE_SECRET, LOGTO_BASE_URL, now,
                              client, postRedirectUri, provider, e)
    IN  /\ resp' = Served("handleCallback", client, postRedirectUri, out)
        /\ jar' = IF out.threw THEN jar ELSE out.jar
        /\ UNCHANGED <<LOGTO_ENABLE, LOGTO_COOKIE_SECRET, LOGTO_BASE_URL, now, provider>>

\* what is thrown when a provider call fails, and nothing when none does
ErrorsWhen(fails) == IF fails THEN Errors ELSE {NoError}

\* the requests of one run are served within one second, whichever it is
AuthNext ==
    \/ \E p \in PostRedirects, c \in ClientOutcomes :
          \E e \in ErrorsWhen(c = "throws") : SignIn(p, c, e)
    \/ \E c \in ClientOutcomes :
          \E e \in ErrorsWhen(c = "throws") : SignOut(c, e)
    \/ \E c \in ClientOutcomes :
          \E p \in (IF c = "throws" THEN {<<>>} ELSE PostRedirects) :
             \E e \in ErrorsWhen(c = "throws" \/ provider = "throws") :
                HandleCallback(c, p, e)

AuthSpec == AuthInit /\ [][AuthNext]_vars

-----------------------------------------------------------------------------
(* Session Lifecycle claims *)

\* the application's base URL
BaseUrl == <<OrElse(LOGTO_BASE_URL, "http://localhost:3000")>>

\* the request of the last operation carried a valid virtual-user cookie
VirtualSessionActive ==
    ValidVirtualCookie(resp.reqJar[VIRTUAL_USER_COOKIE], resp.at)

\* the positions in the last operation's effects where it did act on what
StepsWhere(act, what) ==
    {i \in 1..Len(resp.steps) : resp.steps[i].act = act /\ resp.steps[i].what = what}

\* the provider client methods the last operation called
ProviderCalls ==
    {resp.steps[i].what : i \in {n \in 1..Len(resp.steps) : resp.steps[n].act = "call"}}

\* the cookies the last operation deleted, and those it set
DeletedCookies ==
    {resp.steps[i].what : i \in {n \in 1..Len(resp.steps) : resp.steps[n].act = "delete"}}
SetCookies ==
    {resp.steps[i].what : i \in {n \in 1..Len(resp.steps) : resp.steps[n].act = "set"}}

\* the last operation answered with a redirect to url
RedirectedTo(url) ==
    /\ ~resp.threw
    /\ resp.kind = "redirect"
    /\ resp.location = url

\* the message the auth_error cookie of the response decodes to ("" if none)
StoredErrorMessage ==
    LET d == decryptSession(resp.resJar[AUTH_ERROR_COOKIE], LOGTO_COOKIE_SECRET, resp.at)
    IN  IF d.null \/ "errorMessage" \notin DOMAIN d.data THEN ""
        ELSE d.data["errorMessage"]

\* C14: signOut with a Virtual session active deletes the virtual-user cookie
\* and no other, leaves the provider-session cookie as it was, calls no method
\* of the provider client, and redirects to the base URL
C14_VirtualSignOut ==
    (resp.op = "signOut" /\ VirtualSessionActive)
    => /\ RedirectedTo(BaseUrl)
       /\ resp.resJar[VIRTUAL_USER_COOKIE] = NoCookie
       /\ resp.resJar[LOGTO_SESSION_COOKIE] = resp.reqJar[LOGTO_SESSION_COOKIE]
       /\ DeletedCookies = {VIRTUAL_USER_COOKIE}
       /\ SetCookies = {}
       /\ ProviderCalls = {}

\* C14 witness: a client holding both a valid virtual-user cookie and a
\* provider-session cookie signed out while the provider client was failing
C14_Witness ==
    /\ resp.op = "signOut"
    /\ VirtualSessionActive
    /\ SignedAndFresh(resp.reqJar[LOGTO_SESSION_COOKIE], SharedSecret, resp.at)
    /\ resp.client = "throws"
    /\ resp.resJar[VIRTUAL_USER_COOKIE] = NoCookie
    /\ RedirectedTo(BaseUrl)

\* C15: signOut with no Virtual session active deletes the provider-session
\* cookie, after that calls the provider client's handleSignOut and, when the
\* call returns, redirects to the URL it returned
C15_ProviderSignOut ==
    (resp.op = "signOut" /\ ~VirtualSessionActive)
    => /\ resp.resJar[LOGTO_SESSION_COOKIE] = NoCookie
       /\ \E i \in StepsWhere("delete", LOGTO_SESSION_COOKIE) :
             \E n \in StepsWhere("call", "handleSignOut") : i < n
       /\ (resp.client = "returns" => RedirectedTo(ProviderSignOutUrl))

\* C15 witness: a client with a provider-session cookie and no virtual-user
\* cookie signed out and was sent to the provider's sign-out URL
C15_Witness ==
    /\ resp.op = "signOut"
    /\ resp.reqJar[VIRTUAL_USER_COOKIE] = NoCookie
    /\ SignedAndFresh(resp.reqJar[LOGTO_SESSION_COOKIE], SharedSecret, resp.at)
    /\ resp.client = "returns"
    /\ resp.resJar[LOGTO_SESSION_COOKIE] = NoCookie
    /\ RedirectedTo(ProviderSignOutUrl)

\* C16: when the provider's sign-out call raises, signOut does not raise: it
\* deletes the provider-session cookie and the virtual-user cookie and
\* redirects to the base URL
C16_SignOutFailure ==
    (resp.op = "signOut" /\ resp.client = "throws"
       /\ "handleSignOut" \in ProviderCalls)
    => /\ resp.caught
       /\ RedirectedTo(BaseUrl)
       /\ resp.resJar[LOGTO_SESSION_COOKIE] = NoCookie
       /\ resp.resJar[VIRTUAL_USER_COOKIE] = NoCookie
       /\ {LOGTO_SESSION_COOKIE, VIRTUAL_USER_COOKIE} \subseteq DeletedCookies

\* C16 witness: the sign-out call raised for a client holding a
\* provider-session cookie and a virtual-user cookie that does not decode
C16_Witness ==
    /\ resp.op = "signOut"
    /\ resp.client = "throws"
    /\ resp.caught
    /\ SignedAndFresh(resp.reqJar[LOGTO_SESSION_COOKIE], SharedSecret, resp.at)
    /\ UndecodableCookie(resp.reqJar[VIRTUAL_USER_COOKIE], resp.at)
    /\ resp.resJar[VIRTUAL_USER_COOKIE] = NoCookie
    /\ RedirectedTo(BaseUrl)

\* the response of handleCallback carries a provider-session cookie written by
\* this request: a token signed now holding isAuthenticated = true and the
\* provider's profile
SessionWritten ==
    /\ LOGTO_SESSION_COOKIE \in SetCookies
    /\ resp.resJar[LOGTO_SESSION_COOKIE] =
          encryptSession([isAuthenticated |-> TRUE, userInfo |-> ProviderUserInfo],
                         LOGTO_COOKIE_SECRET, resp.at)

\* where a completed callback sends the client
PostRedirectTarget ==
    BaseUrl \o (IF resp.postRedirectUri = <<>> THEN <<"/">> ELSE resp.postRedirectUri)

\* C17: whenever the provider callback exchange did not fail, handleCallback
\* sets the provider-session cookie to a signed token carrying
\* isAuthenticated = true and the provider's profile, and redirects to the
\* base URL followed by the post-redirect target, or by "/" when there is none
C17_CallbackWritesSession ==
    (resp.op = "handleCallback" /\ resp.client = "returns")
    => /\ SessionWritten
       /\ RedirectedTo(PostRedirectTarget)

\* C17, where it holds: when the exchange did not fail, the provider reports
\* an authenticated context with a profile, and the target makes a URL
Callback_WritesSessionWhenAuthenticated ==
    (resp.op = "handleCallback" /\ resp.client = "returns"
       /\ resp.provider = "authenticated" /\ canParseURL(PostRedirectTarget))
    => /\ SessionWritten
       /\ RedirectedTo(PostRedirectTarget)

\* the failure is an Error whose message has one of the three signatures
IsConnectivityFailure(e) ==
    /\ e.isError
    /\ \E i \in 1..Len(e.message) :
          e.message[i] \in {"fetch failed", "network", "ECONNREFUSED"}

\* C18: when handleCallback fails, it stores in the auth-error cookie the
\* "cannot reach the authentication server" message exactly when what was
\* raised is an Error whose message contains "fetch failed", "network" or
\* "ECONNREFUSED", and the generic "sign-in failed" message otherwise, and
\* redirects to the base URL
C18_CallbackErrorMessage ==
    /\ (resp.op = "handleCallback" /\ resp.client = "throws") => resp.caught
    /\ (resp.op = "handleCallback" /\ resp.caught)
       => /\ RedirectedTo(BaseUrl)
          /\ AUTH_ERROR_COOKIE \in SetCookies
          /\ StoredErrorMessage =
                (IF IsConnectivityFailure(resp.error)
                   THEN "cannot reach the authentication server, check the network"
                   ELSE "sign-in failed, try again later")

\* C18 witness: the exchange raised the string "network", which is no Error,
\* and the generic message was stored
C18_Witness ==
    /\ resp.op = "handleCallback"
    /\ resp.client = "throws"
    /\ ~resp.error.isError
    /\ resp.error.message = <<"network">>
    /\ StoredErrorMessage = "sign-in failed, try again later"
    /\ RedirectedTo(BaseUrl)

\* C19: a handleCallback that ends on its failure path (error message stored,
\* redirect to the base URL) has written no provider-session cookie
C19_NoPartialSession ==
    (resp.op = "handleCallback" /\ resp.caught)
    => /\ LOGTO_SESSION_COOKIE \notin SetCookies
       /\ resp.resJar[LOGTO_SESSION_COOKIE] = resp.reqJar[LOGTO_SESSION_COOKIE]

\* C19, where it holds: a failure of one of the two provider calls leaves the
\* provider-session cookie as it was
Callback_ProviderFailureWritesNoSession ==
    (resp.op = "handleCallback" /\ resp.caught /\ resp.error # TypeError_InvalidURL)
    => /\ LOGTO_SESSION_COOKIE \notin SetCookies
       /\ resp.resJar[LOGTO_SESSION_COOKIE] = resp.reqJar[LOGTO_SESSION_COOKIE]

\* C20: signIn never raises; it redirects to the provider's authorization URL
\* when the provider client returns one, and otherwise stores the sign-in
\* service message in the auth-error cookie and redirects to the base URL; in
\* both cases the provider-session and virtual-user cookies stay as they were
C20_SignIn ==
    resp.op = "signIn"
    => /\ ~resp.threw
       /\ (resp.client = "returns"
             => RedirectedTo(ProviderSignInUrl) /\ resp.resJar = resp.reqJar)
       /\ (resp.client = "throws"
             => /\ RedirectedTo(BaseUrl)
                /\ SetCookies = {AUTH_ERROR_COOKIE}
                /\ StoredErrorMessage =
                      "the sign-in service is failing, try again later")
       /\ resp.resJar[LOGTO_SESSION_COOKIE] = resp.reqJar[LOGTO_SESSION_COOKIE]
       /\ resp.resJar[VIRTUAL_USER_COOKIE] = resp.reqJar[VIRTUAL_USER_COOKIE]
       /\ DeletedCookies = {}

\* C20 witness: the provider client failed to build the URL for a client that
\* holds both session cookies; the message was stored and both cookies kept
C20_Witness ==
    /\ resp.op = "signIn"
    /\ resp.client = "throws"
    /\ HasValue(resp.reqJar[LOGTO_SESSION_COOKIE])
    /\ HasValue(resp.reqJar[VIRTUAL_USER_COOKIE])
    /\ StoredErrorMessage = "the sign-in service is failing, try again later"
    /\ RedirectedTo(BaseUrl)

-----------------------------------------------------------------------------
(* Routes and guards over the resolver: the sign-in route                  *)
(* (src/unnamed/part_004), GET /api/auth/user                              *)
(* (src/app/api/auth/user/route.ts), requireUser and requireAuth           *)
(* (src/lib/auth/index.ts 374-409)                                         *)

\* what the sign-in route returns, whether it called signIn, and with what
SignInRouted(out, called, passed) == [out |-> out, called |-> called, passed |-> passed]

\* GET of the sign-in route; param is the raw redirectTo of the query string
\* (<<>>: absent or empty)
signInRoute_AlwaysSignIn(param, enable, j, env, base, t, client, e) ==
    LET redirectTo == IF decodeParam(param) = <<>> THEN <<"/">> ELSE decodeParam(param)
    IN  SignInRouted(signIn(redirectTo, j, env, base, t, client, e), TRUE, redirectTo)

signInRoute(param, enable, j, env, base, t, client, e) ==
    IF ~shouldEnforceAuth(enable)
      THEN SignInRouted(Outcome(FALSE, CONFIG_baseUrl(base), j, <<>>, FALSE, NoError),
                        FALSE, <<>>)
      ELSE LET redirectTo == IF decodeParam(param) = <<>> THEN <<"/">>
                                                         ELSE decodeParam(param)
           IN  SignInRouted(signIn(redirectTo, j, env, base, t, client, e),
                            TRUE, redirectTo)

\* the body of GET /api/auth/user: user is null, or has the id context.userInfo?.sub
UserBody(isAuthenticated, hasUser, id) ==
    [isAuthenticated |-> isAuthenticated, hasUser |-> hasUser, id |-> id]

\* what a route or guard over getUser gives: a JSON response, a returned
\* context, the control transfer of redirect(), or the exception of getUser
Guarded(kind, status, body, location, context) ==
    [kind |-> kind, status |-> status, body |-> body, location |-> location,
     context |-> context]

\* GET /api/auth/user, r being what getUser gave
userRoute_AlwaysOk(r) ==
    Guarded("json", 200, UserBody(TRUE, TRUE, r.context.userInfo.sub), <<>>, r.context)

userRoute(r) ==
    IF r.threw THEN Guarded("throw", 0, UserBody(FALSE, FALSE, ""), <<>>, r.context)
    ELSE IF ~r.context.isAuthenticated
      THEN Guarded("json", 401, UserBody(FALSE, FALSE, ""), <<>>, r.context)
    ELSE Guarded("json", 200, UserBody(TRUE, TRUE, r.context.userInfo.sub), <<>>,
                 r.context)

\* requireUser(), r being what getUser gave
requireUser(r) ==
    IF r.threw THEN Guarded("throw", 0, NoBody, <<>>, r.context)
    ELSE IF ~r.context.isAuthenticated
      THEN Guarded("redirect", 307, NoBody, AUTH_ROUTES_signIn, r.context)
    ELSE Guarded("context", 0, NoBody, <<>>, r.context)

\* options.redirectTo not given
NoOption == <<"undefined">>

\* requireAuth({ isApi, redirectTo }), r being what getUser gave
requireAuth_RedirectAlways(isApi, redirectTo, r) ==
    IF r.threw THEN Guarded("throw", 0, NoBody, <<>>, r.context)
    ELSE IF ~r.context.isAuthenticated
      THEN Guarded("redirect", 307, NoBody,
                   IF redirectTo = NoOption THEN AUTH_ROUTES_signIn ELSE redirectTo,
                   r.context)
    ELSE Guarded("context", 0, NoBody, <<>>, r.context)

requireAuth(isApi, redirectTo, r) ==
    IF r.threw THEN Guarded("throw", 0, NoBody, <<>>, r.context)
    ELSE IF ~r.context.isAuthenticated
      THEN IF isApi
             THEN Guarded("json", 401, NextResponse_json401({}).body, <<>>, r.context)
             ELSE Guarded("redirect", 307, NoBody,
                          IF redirectTo = NoOption THEN AUTH_ROUTES_signIn
                                                   ELSE redirectTo,
                          r.context)
    ELSE Guarded("context", 0, NoBody, <<>>, r.context)

\* the raw redirectTo values of the query string: none, the one the gate
\* writes for /chat, a relative path
RouteParams == { <<>>, encodeParam(<<"/", "chat">>), <<"chat">> }

\* the redirectTo a caller of requireAuth may give
RedirectOptions == { NoOption, AUTH_ROUTES_signIn, <<"/", "login">> }

\* the record of the last route or guard served
Routed(op, isApi, param, client, g, resolved, signed) ==
    [op |-> op, at |-> now, reqJar |-> jar, provider |-> provider, isApi |-> isApi,
     param |-> param, client |-> client, kind |-> g.kind, status |-> g.status,
     body |-> g.body, location |-> g.location, context |-> g.context,
     resolved |-> resolved, signed |-> signed]

RouteInit ==
    /\ LOGTO_ENABLE \in EnableValues
    /\ LOGTO_COOKIE_SECRET = "k1"
    /\ LOGTO_BASE_URL \in BaseUrlValues
    /\ now \in 0..MaxTime
    /\ \E l \in AuthLogtoPool, v \in AuthVirtualPool :
          jar = [c \in CookieNames |->
                    IF c = LOGTO_SESSION_COOKIE THEN l
                    ELSE IF c = VIRTUAL_USER_COOKIE THEN v
                    ELSE NoCookie]
    /\ provider \in ProviderOutcomes
    /\ resp = Routed("none", FALSE, <<>>, "returns",
                     Guarded("none", 0, NoBody, <<>>, Unauthenticated),
                     Resolved(Unauthenticated, jar, {}, {}, 0, FALSE),
                     SignInRouted(Outcome(FALSE, <<>>, jar, <<>>, FALSE, NoError),
                                  FALSE, <<>>))

\* what a route that does not sign in records for signIn
NotSignedIn == SignInRouted(Outcome(FALSE, <<>>, jar, <<>>, FALSE, NoError), FALSE, <<>>)

\* GET /api/auth/sign-in?redirectTo=param
SignInRoute(param, client, e) ==
    LET r == signInRoute(param, LOGTO_ENABLE, jar, LOGTO_COOKIE_SECRET,
                         LOGTO_BASE_URL, now, client, e)
    IN  /\ resp' = Routed("signInRoute", FALSE, param, client,
                          Guarded(r.out.kind, r.out.status, NoBody, r.out.location,
                                  Unauthenticated),
                          Resolved(Unauthenticated, r.out.jar, {}, {}, 0, FALSE), r)
        /\ jar' = r.out.jar
        /\ UNCHANGED <<LOGTO_ENABLE, LOGTO_COOKIE_SECRET, LOGTO_BASE_URL, now, provider>>

\* GET /api/auth/user
UserRoute ==
    LET r == getUser(LOGTO_ENABLE, LOGTO_COOKIE_SECRET, jar, provider, now)
    IN  /\ resp' = Routed("userRoute", TRUE, <<>>, "returns", userRoute(r), r,
                          NotSignedIn)
        /\ jar' = r.jar
        /\ UNCHANGED <<LOGTO_ENABLE, LOGTO_COOKIE_SECRET, LOGTO_BASE_URL, now, provider>>

\* a page calls requireUser()
RequireUser ==
    LET r == getUser(LOGTO_ENABLE, LOGTO_COOKIE_SECRET, jar, provider, now)
    IN  /\ resp' = Routed("requireUser", FALSE, NoOption, "returns", requireUser(r),
                          r, NotSignedIn)
        /\ jar' = r.jar
        /\ UNCHANGED <<LOGTO_ENABLE, LOGTO_COOKIE_SECRET, LOGTO_BASE_URL, now, provider>>

\* a page or an API route calls requireAuth(options)
RequireAuth(isApi, redirectTo) ==
    LET r == getUser(LOGTO_ENABLE, LOGTO_COOKIE_SECRET, jar, provider, now)
    IN  /\ resp' = Routed("requireAuth", isApi, redirectTo, "returns",
                          requireAuth(isApi, redirectTo, r), r, NotSignedIn)
        /\ jar' = r.jar
        /\ UNCHANGED <<LOGTO_ENABLE, LOGTO_COOKIE_SECRET, LOGTO_BASE_URL, now, provider>>

RouteNext ==
    \/ \E param \in RouteParams, c \in ClientOutcomes :
          \E e \in ErrorsWhen(c = "throws") : SignInRoute(param, c, e)
    \/ UserRoute
    \/ RequireUser
    \/ \E isApi \in BOOLEAN, redirectTo \in RedirectOptions :
          RequireAuth(isApi, redirectTo)

RouteSpec == RouteInit /\ [][RouteNext]_vars

-----------------------------------------------------------------------------
(* Route and guard claims *)

\* C21: the sign-in route with enforcement OFF redirects to the base URL
\* without calling signIn or the provider client; with enforcement ON it calls
\* signIn with the redirectTo parameter of the request, or with "/" when the
\* parameter is absent
C21_SignInRoute ==
    resp.op = "signInRoute"
    => /\ ~Enforced
          => /\ ~resp.signed.called
             /\ resp.signed.out.steps = <<>>
             /\ resp.kind = "redirect"
             /\ resp.location = BaseUrl
             /\ resp.resolved.jar = resp.reqJar
       /\ Enforced
          => /\ resp.signed.called
             /\ resp.signed.out.steps[1] = Did("call", "handleSignIn", 0)
             /\ (resp.param = <<>> => resp.signed.passed = <<"/">>)
             /\ (resp.param = <<"%2F", "chat">> => resp.signed.passed = <<"/", "chat">>)
             /\ (resp.param = <<"chat">> => resp.signed.passed = <<"chat">>)

\* C21 witness: with enforcement OFF and a failing provider client the route
\* was asked with a redirectTo and redirected to the base URL
C21_Witness ==
    /\ resp.op = "signInRoute"
    /\ ~Enforced
    /\ resp.client = "throws"
    /\ resp.param = <<"%2F", "chat">>
    /\ resp.kind = "redirect"
    /\ resp.location = BaseUrl
    /\ ~resp.signed.called

\* C22: GET /api/auth/user never throws; it answers 200 with
\* isAuthenticated = true and a user whose id is the sub of the resolved
\* profile exactly when getUser returned an authenticated context, and 401
\* with isAuthenticated = false and user = null exactly when getUser returned
\* Unauthenticated
C22_UserRoute ==
    resp.op = "userRoute"
    => /\ resp.kind = "json"
       /\ resp.resolved.context.isAuthenticated
          <=> /\ resp.status = 200
              /\ resp.body.isAuthenticated
              /\ resp.body.hasUser
              /\ resp.body.id = resp.resolved.context.userInfo.sub
       /\ resp.resolved.context = Unauthenticated
          <=> /\ resp.status = 401
              /\ ~resp.body.isAuthenticated
              /\ ~resp.body.hasUser

\* C22 witness: a client with a valid virtual-user cookie was answered 200
\* with the id of the cookie's profile
C22_Witness ==
    /\ resp.op = "userRoute"
    /\ Enforced
    /\ VirtualSessionActive
    /\ resp.status = 200
    /\ resp.body.id = resp.reqJar[VIRTUAL_USER_COOKIE].payload.userInfo.sub

\* the 401 body of requireAuth
IsUnauthorizedBody(b) == b.error = "Unauthorized" /\ b.code = 401 /\ b.message # ""

\* C23 as stated: requireAuth returns the resolved context when getUser is
\* authenticated; when it is not, requireAuth returns the 401 response without
\* redirecting if isApi is true, and redirects to the sign-in entry point, as
\* requireUser does, if isApi is false
C23_RequireAuth ==
    resp.op = "requireAuth"
    => /\ resp.resolved.context.isAuthenticated
          => resp.kind = "context" /\ resp.context = resp.resolved.context
       /\ (~resp.resolved.context.isAuthenticated /\ resp.isApi)
          => resp.kind = "json" /\ resp.status = 401 /\ IsUnauthorizedBody(resp.body)
       /\ (~resp.resolved.context.isAuthenticated /\ ~resp.isApi)
          => /\ resp.kind = "redirect"
             /\ resp.location = <<"/", "api", "/", "auth", "/", "sign-in">>

\* C23 amended: as above, but with isApi false the redirect goes to
\* options.redirectTo, and to the sign-in entry point of requireUser only when
\* the caller gave no redirectTo
C23_RequireAuthRedirectTo ==
    resp.op = "requireAuth"
    => /\ resp.resolved.context.isAuthenticated
          => resp.kind = "context" /\ resp.context = resp.resolved.context
       /\ (~resp.resolved.context.isAuthenticated /\ resp.isApi)
          => resp.kind = "json" /\ resp.status = 401 /\ IsUnauthorizedBody(resp.body)
       /\ (~resp.resolved.context.isAuthenticated /\ ~resp.isApi)
          => /\ resp.kind = "redirect"
             /\ resp.location =
                   (IF resp.param = <<"undefined">>
                      THEN <<"/", "api", "/", "auth", "/", "sign-in">>
                      ELSE resp.param)

\* requireUser redirects an unauthenticated caller to the sign-in entry point
Guard_RequireUserRedirect ==
    resp.op = "requireUser"
    => IF resp.resolved.context.isAuthenticated
         THEN resp.kind = "context" /\ resp.context = resp.resolved.context
         ELSE resp.kind = "redirect"
              /\ resp.location = <<"/", "api", "/", "auth", "/", "sign-in">>

\* C23 witness: an unauthenticated page caller that gave redirectTo = /login
\* was redirected there
C23_Witness ==
    /\ resp.op = "requireAuth"
    /\ ~resp.isApi
    /\ resp.param = <<"/", "login">>
    /\ ~resp.resolved.context.isAuthenticated
    /\ resp.kind = "redirect"
    /\ resp.location = <<"/", "login">>

-----------------------------------------------------------------------------
(* The virtual session: src/lib/auth/index.ts 236-298 *)

\* setVirtualUser(userInfo): the cookie holds the claims of a profile made
\* from userInfo.id, expiring COOKIE_CONFIG.maxAge after now
setVirtualUser_HourProfile(j, userInfo, env, t) ==
    [j EXCEPT ![VIRTUAL_USER_COOKIE] =
        encryptSession(
            [isAuthenticated |-> TRUE, isVirtual |-> TRUE,
             userInfo |-> [VirtualUserInfo(userInfo.id, t + 3600) EXCEPT !.iat = t],
             lastVerified |-> t * 1000],
            env, t)]

setVirtualUser(j, userInfo, env, t) ==
    [j EXCEPT ![VIRTUAL_USER_COOKIE] =
        encryptSession(
            [isAuthenticated |-> TRUE, isVirtual |-> TRUE,
             userInfo |-> [VirtualUserInfo(userInfo.id, t + COOKIE_CONFIG_maxAge)
                              EXCEPT !.iat = t],
             lastVerified |-> t * 1000],
            env, t)]

\* the users an administrator signs in as
LogtoUsers == { [id |-> "u1"], [id |-> "u2"] }
NoLogtoUser == [id |-> ""]

\* the record of a write to the virtual session
VirtualWritten(op, input, j) ==
    [op |-> op, at |-> now, reqJar |-> jar, resJar |-> j, provider |-> provider,
     input |-> input, providerCalls |-> 0,
     sets |-> IF op = "setVirtualUser" THEN {VIRTUAL_USER_COOKIE} ELSE {},
     deletes |-> IF op = "clearVirtualUser" THEN {VIRTUAL_USER_COOKIE} ELSE {},
     threw |-> FALSE]

\* what the provider answers in these runs, and what its failing call throws
SessionProviders == {"authenticated", "unauthenticated"}
SessionErrors == { Thrown_Error(TRUE, <<"TypeError: ", "fetch failed">>) }

SessionInit ==
    /\ LOGTO_ENABLE = "true"
    /\ LOGTO_COOKIE_SECRET = "k1"
    /\ LOGTO_BASE_URL = ""
    /\ now = 0
    /\ \E l \in AuthLogtoPool, v \in AuthVirtualPool :
          jar = [c \in CookieNames |->
                    IF c = LOGTO_SESSION_COOKIE THEN l
                    ELSE IF c = VIRTUAL_USER_COOKIE THEN v
                    ELSE NoCookie]
    /\ provider \in SessionProviders
    /\ resp = VirtualWritten("none", NoLogtoUser, jar)

\* time passes, by seconds or by the lifetime of a cookie
SessionTick(t) ==
    /\ t > now
    /\ now' = t
    /\ UNCHANGED <<LOGTO_ENABLE, LOGTO_COOKIE_SECRET, LOGTO_BASE_URL, jar, provider, resp>>

\* an administrator's action calls setVirtualUser (in the first seconds)
SetVirtualUser(userInfo) ==
    /\ now <= MaxTime
    /\ jar' = setVirtualUser(jar, userInfo, LOGTO_COOKIE_SECRET, now)
    /\ resp' = VirtualWritten("setVirtualUser", userInfo, jar')
    /\ UNCHANGED <<LOGTO_ENABLE, LOGTO_COOKIE_SECRET, LOGTO_BASE_URL, now, provider>>

\* a handler calls clearVirtualUser()
ClearVirtualUser ==
    /\ jar' = clearVirtualUser(jar)
    /\ resp' = VirtualWritten("clearVirtualUser", NoLogtoUser, jar')
    /\ UNCHANGED <<LOGTO_ENABLE, LOGTO_COOKIE_SECRET, LOGTO_BASE_URL, now, provider>>

SessionNext ==
    \/ \E t \in CodecTimes : SessionTick(t)
    \/ \E userInfo \in LogtoUsers : SetVirtualUser(userInfo)
    \/ ClearVirtualUser
    \/ GetUser
    \/ \E c \in ClientOutcomes :
          \E e \in (IF c = "throws" THEN SessionErrors ELSE {NoError}) : SignOut(c, e)

SessionSpec == SessionInit /\ [][SessionNext]_vars

-----------------------------------------------------------------------------
(* Virtual session claims *)

\* the request carried a virtual-user cookie this process signed, unaltered,
\* whose embedded profile exp lies before the time of the request
ExpiredVirtualCookie ==
    LET tok == resp.reqJar[VIRTUAL_USER_COOKIE]
    IN  /\ tok.form = "jwt"
        /\ tok.sig
        /\ tok.key = SharedSecret
        /\ tok.payload.userInfo.defined
        /\ tok.payload.userInfo.exp # 0
        /\ tok.payload.userInfo.exp < resp.at

\* the virtual-user cookie of the request is one setVirtualUser wrote
WrittenBySetVirtualUser ==
    "lastVerified" \in DOMAIN resp.reqJar[VIRTUAL_USER_COOKIE].payload

\* C24: with enforcement ON and no provider session, a request presenting a
\* virtual-user cookie whose exp is in the past (a cookie of setVirtualUser
\* presented after its expiry among them) gets Unauthenticated from getUser,
\* and getUser deletes the virtual-user cookie in that request
C24_ExpiredVirtualCookieDeleted ==
    (resp.op = "getUser" /\ Enforced /\ resp.provider = "unauthenticated"
       /\ ExpiredVirtualCookie)
    => /\ resp.context = Unauthenticated
       /\ VIRTUAL_USER_COOKIE \in resp.deletes
       /\ resp.resJar[VIRTUAL_USER_COOKIE] = NoCookie

\* C24, where it holds: the profile has expired and the token around it has not
Virtual_ExpiredProfileDeleted ==
    (resp.op = "getUser" /\ Enforced /\ resp.provider = "unauthenticated"
       /\ ExpiredVirtualCookie /\ resp.reqJar[VIRTUAL_USER_COOKIE].exp > resp.at)
    => /\ resp.context = Unauthenticated
       /\ VIRTUAL_USER_COOKIE \in resp.deletes
       /\ resp.resJar[VIRTUAL_USER_COOKIE] = NoCookie

\* C24, what getUser does with an expired cookie of setVirtualUser: it returns
\* Unauthenticated and leaves the cookie in the jar
Virtual_ExpiredTokenKept ==
    (resp.op = "getUser" /\ Enforced /\ resp.provider = "unauthenticated"
       /\ ExpiredVirtualCookie /\ WrittenBySetVirtualUser)
    => /\ resp.context = Unauthenticated
       /\ resp.deletes = {}
       /\ resp.resJar = resp.reqJar

\* C28: the virtual-session path makes no call to the provider client:
\* setVirtualUser, clearVirtualUser, signOut of an active Virtual session, and
\* getUser with a valid virtual-user cookie
C28_VirtualPathAvoidsProvider ==
    /\ resp.op \in {"setVirtualUser", "clearVirtualUser"} => resp.providerCalls = 0
    /\ (resp.op = "getUser" /\ Enforced /\ VirtualSessionActive)
       => resp.providerCalls = 0
    /\ (resp.op = "signOut" /\ VirtualSessionActive) => ProviderCalls = {}

\* C28 witness: getUser answered from a cookie of setVirtualUser while the
\* provider had an authenticated session to report
C28_Witness ==
    /\ resp.op = "getUser"
    /\ WrittenBySetVirtualUser
    /\ VirtualSessionActive
    /\ resp.provider = "authenticated"
    /\ resp.context.isVirtual
    /\ resp.providerCalls = 0

\* C30: setVirtualUser writes the virtual-user cookie and no other; a getUser
\* that follows it with enforcement ON, before 30 days have passed and with no
\* other operation in between, returns a Virtual identity whose sub is the
\* given profile's id and whose exp is the time of creation plus 30 days
C30_VirtualUserLifetime ==
    /\ [](resp.op = "setVirtualUser"
            => /\ resp.sets = {VIRTUAL_USER_COOKIE}
               /\ resp.deletes = {}
               /\ resp.resJar[LOGTO_SESSION_COOKIE] = resp.reqJar[LOGTO_SESSION_COOKIE]
               /\ resp.resJar[AUTH_ERROR_COOKIE] = resp.reqJar[AUTH_ERROR_COOKIE])
    /\ [][(resp.op = "setVirtualUser" /\ resp'.op = "getUser" /\ Enforced
             /\ now < resp.at + 2592000)
          => /\ resp'.context.isAuthenticated
             /\ resp'.context.isVirtual
             /\ resp'.context.userInfo.sub = resp.input.id
             /\ resp'.context.userInfo.exp = resp.at + 2592000]_vars
    /\ []((resp.op = "getUser" /\ Enforced /\ WrittenBySetVirtualUser
              /\ resp.at < resp.reqJar[VIRTUAL_USER_COOKIE].payload.userInfo.iat + 2592000)
            => /\ resp.context.isVirtual
               /\ resp.context.userInfo = resp.reqJar[VIRTUAL_USER_COOKIE].payload.userInfo
               /\ resp.context.userInfo.exp = resp.context.userInfo.iat + 2592000)

\* C30 witness: a second before the 30 days were over getUser returned the
\* Virtual identity of the user "u2" set by setVirtualUser
C30_Witness ==
    /\ resp.op = "getUser"
    /\ WrittenBySetVirtualUser
    /\ resp.at = resp.reqJar[VIRTUAL_USER_COOKIE].exp - 1
    /\ resp.at >= 2592000 - 1
    /\ resp.context.isVirtual
    /\ resp.context.userInfo.sub = "u2"

-----------------------------------------------------------------------------
(* The auth-error cookie: src/lib/auth/index.ts 303-328 *)

\* string | null, as getAuthError returns it
NullMessage == "null"

getAuthError_NoDelete(j, env, t) ==
    LET errorCookie == j[AUTH_ERROR_COOKIE]
        data == decryptSession(errorCookie, env, t)
    IN  [jar |-> j, deletes |-> {},
         message |-> IF ~HasValue(errorCookie) \/ data.null THEN NullMessage
                     ELSE IF "errorMessage" \notin DOMAIN data.data THEN NullMessage
                     ELSE IF data.data.errorMessage = "" THEN NullMessage
                     ELSE data.data.errorMessage]

\* getAuthError(): the cookie is decoded, then deleted, and the message of the
\* decoded claims is returned (`data?.errorMessage || null`)
getAuthError(j, env, t) ==
    LET errorCookie == j[AUTH_ERROR_COOKIE]
        data == decryptSession(errorCookie, env, t)
    IN  IF ~HasValue(errorCookie)
          THEN [jar |-> j, deletes |-> {}, message |-> NullMessage]
          ELSE [jar |-> [j EXCEPT ![AUTH_ERROR_COOKIE] = NoCookie],
                deletes |-> {AUTH_ERROR_COOKIE},
                message |-> IF data.null THEN NullMessage
                            ELSE IF "errorMessage" \notin DOMAIN data.data
                              THEN NullMessage
                            ELSE IF data.data.errorMessage = "" THEN NullMessage
                            ELSE data.data.errorMessage]

\* the messages given to setAuthError: the three of the lifecycle and the
\* empty string
ErrorMessages == {SIGN_IN_SERVICE_ERROR, SIGN_IN_FAILED, CANNOT_REACH_SERVER, ""}

\* the clock of these runs: the first seconds, then around the cookie's
\* maxAge and around the token's thirty days
ErrorTimes ==
    (0..MaxTime) \cup {AUTH_ERROR_maxAge + d : d \in -1..MaxTime}
                 \cup {THIRTY_DAYS + d : d \in -1..MaxTime}

\* the last operation on the auth-error cookie
ErrorServed(op, message, j, result, deletes) ==
    [op |-> op, at |-> now, reqJar |-> jar, resJar |-> j, message |-> message,
     result |-> result, deletes |-> deletes]

\* what a client may put in the auth-error cookie itself: nothing, an empty
\* value, bytes that are no token, a token of another secret
ErrorPool ==
    {NoCookie, EmptyValue, Garbage,
     encryptSession([errorMessage |-> SIGN_IN_FAILED], OTHER_SECRET, 0)}

ErrorInit ==
    /\ LOGTO_ENABLE = "true"
    /\ LOGTO_COOKIE_SECRET \in SecretValues
    /\ LOGTO_BASE_URL = ""
    /\ now = 0
    /\ jar = EmptyJar
    /\ provider = "unauthenticated"
    /\ resp = ErrorServed("none", "", jar, NullMessage, {})

ErrorTick(t) ==
    /\ t > now
    /\ now' = t
    /\ UNCHANGED <<LOGTO_ENABLE, LOGTO_COOKIE_SECRET, LOGTO_BASE_URL, jar, provider, resp>>

\* a failing sign-in stores its message (in the first seconds)
SetAuthError(m) ==
    /\ now <= MaxTime
    /\ jar' = setAuthError(jar, m, LOGTO_COOKIE_SECRET, now)
    /\ resp' = ErrorServed("setAuthError", m, jar', NullMessage, {})
    /\ UNCHANGED <<LOGTO_ENABLE, LOGTO_COOKIE_SECRET, LOGTO_BASE_URL, now, provider>>

\* a page reads the message; the client goes on presenting the cookie it
\* holds, whatever the deletion instruction said
GetAuthError ==
    LET r == getAuthError(jar, LOGTO_COOKIE_SECRET, now)
    IN  /\ resp' = ErrorServed("getAuthError", resp.message, r.jar, r.message, r.deletes)
        /\ jar' \in {jar, r.jar}
        /\ UNCHANGED <<LOGTO_ENABLE, LOGTO_COOKIE_SECRET, LOGTO_BASE_URL, now, provider>>

\* the client replaces the auth-error cookie it holds
PresentErrorCookie(tok) ==
    /\ jar[AUTH_ERROR_COOKIE] # tok
    /\ jar' = [jar EXCEPT ![AUTH_ERROR_COOKIE] = tok]
    /\ UNCHANGED <<LOGTO_ENABLE, LOGTO_COOKIE_SECRET, LOGTO_BASE_URL, now, provider, resp>>

ErrorNext ==
    \/ \E t \in ErrorTimes : ErrorTick(t)
    \/ \E tok \in ErrorPool : PresentErrorCookie(tok)
    \/ \E m \in ErrorMessages : SetAuthError(m)
    \/ GetAuthError

ErrorSpec == ErrorInit /\ [][ErrorNext]_vars

\* C25: the token setAuthError stores is rejected by decode once more than 60
\* seconds have passed since it was created: getAuthError, reading that cookie
\* later than 60 seconds after setAuthError wrote it, returns no message
C25_ErrorTokenSixtySeconds ==
    [][(resp.op = "setAuthError" /\ resp'.op = "getAuthError"
          /\ resp'.reqJar = resp.resJar /\ now > resp.at + 60)
       => resp'.result = NullMessage]_vars

\* C25, what the code does: the token of setAuthError is signed for thirty
\* days like every other; read before that, its message comes back, and only
\* after thirty days is it rejected
ErrorToken_ThirtyDays ==
    [][(resp.op = "setAuthError" /\ resp'.op = "getAuthError"
          /\ resp'.reqJar = resp.resJar)
       => /\ now < resp.at + THIRTY_DAYS
             => resp'.result = (IF resp.message = "" THEN NullMessage
                                ELSE resp.message)
          /\ now >= resp.at + THIRTY_DAYS => resp'.result = NullMessage
          /\ resp.resJar[AUTH_ERROR_COOKIE].exp = resp.at + THIRTY_DAYS
          /\ resp'.resJar[AUTH_ERROR_COOKIE] = NoCookie]_vars

\* C25: a message stored at time 0 was read back at 61 seconds
ErrorToken_ReadAfterSixtySeconds ==
    /\ resp.op = "getAuthError"
    /\ resp.reqJar[AUTH_ERROR_COOKIE].exp = THIRTY_DAYS
    /\ resp.at = AUTH_ERROR_maxAge + 1
    /\ resp.result = SIGN_IN_FAILED

-----------------------------------------------------------------------------
(* The Mock identity over time *)

\* C26: the Mock identity never varies: two getUser calls with enforcement
\* OFF, one after the other at any two times and with any cookies, return the
\* same context in every field of the profile
C26_MockNeverVaries ==
    [][(resp.op = "getUser" /\ resp'.op = "getUser" /\ ~Enforced)
       => resp'.context = resp.context]_vars

\* C26, what the code does: the Mock identity is the same for every request
\* made within one second, whatever the cookies and the provider; its exp and
\* iat are read from the clock and move with it
Mock_VariesWithClockOnly ==
    (resp.op = "getUser" /\ ~Enforced)
    => /\ resp.context.isAuthenticated
       /\ resp.context.isMock
       /\ ~resp.context.isVirtual
       /\ resp.context.userInfo.iss = "https://mock.issuer.com"
       /\ resp.context.userInfo.sub = "mock-user-id"
       /\ resp.context.userInfo.aud = "mock-audience"
       /\ resp.context.userInfo.iat = resp.at
       /\ resp.context.userInfo.exp = resp.at + 3600
       /\ resp.resJar = resp.reqJar

\* C26: a Mock identity returned a second or more after the process started
Mock_LaterRequest ==
    /\ resp.op = "getUser"
    /\ ~Enforced
    /\ resp.at > 0
    /\ resp.context.isMock
    /\ HasValue(resp.reqJar[VIRTUAL_USER_COOKIE])

-----------------------------------------------------------------------------
(* Error messages of the lifecycle *)

\* the pieces of the text of what the provider call threw
ExceptionText == { resp.error.message[i] : i \in 1..Len(resp.error.message) }

\* C27: every message signIn or handleCallback stores in the auth-error cookie
\* is one of three fixed strings of the code; no piece of the text of the
\* caught exception is in the cookie or in the redirect of the response
C27_FixedErrorMessages ==
    (resp.op \in {"signIn", "handleCallback"} /\ AUTH_ERROR_COOKIE \in SetCookies)
    => /\ resp.caught
       /\ ~resp.threw
       /\ StoredErrorMessage \in
             { "the sign-in service is failing, try again later",
               "sign-in failed, try again later",
               "cannot reach the authentication server, check the network" }
       /\ resp.op = "signIn"
             => StoredErrorMessage = "the sign-in service is failing, try again later"
       /\ DOMAIN resp.resJar[AUTH_ERROR_COOKIE].payload = {"errorMessage", "iat", "exp"}
       /\ StoredErrorMessage \notin ExceptionText
       /\ \A piece \in ExceptionText : ~includes(resp.location, piece)
       /\ resp.location = BaseUrl

\* C27 witness: handleCallback caught an Error whose text names a host and a
\* port, and stored the fixed connectivity message
C27_Witness ==
    /\ resp.op = "handleCallback"
    /\ resp.caught
    /\ resp.error.isError
    /\ " 127.0.0.1:3001" \in ExceptionText
    /\ AUTH_ERROR_COOKIE \in SetCookies
    /\ StoredErrorMessage = "cannot reach the authentication server, check the network"

-----------------------------------------------------------------------------
(* getUser called again *)

\* C29: getUser called twice in a row on the same request state (flag,
\* provider state, clock, and the cookies as the first call left them) returns
\* the same context both times, and the second call changes no cookie; the
\* only change getUser ever makes to the jar is the deletion of a virtual-user
\* cookie whose profile has expired: it neither writes nor deletes the
\* provider-session cookie or the auth-error cookie
C29_GetUserIdempotent ==
    /\ []((resp.op = "getUser")
            => /\ resp.resJar[LOGTO_SESSION_COOKIE] = resp.reqJar[LOGTO_SESSION_COOKIE]
               /\ resp.resJar[AUTH_ERROR_COOKIE] = resp.reqJar[AUTH_ERROR_COOKIE]
               /\ resp.deletes \subseteq {VIRTUAL_USER_COOKIE}
               /\ \/ /\ resp.deletes = {}
                     /\ resp.resJar = resp.reqJar
                  \/ /\ resp.deletes = {VIRTUAL_USER_COOKIE}
                     /\ resp.resJar[VIRTUAL_USER_COOKIE] = NoCookie
                     /\ Enforced
                     /\ ExpiredVirtualCookie)
    /\ [][(resp.op = "getUser" /\ resp'.op = "getUser" /\ resp.at = now /\ now' = now)
          => /\ resp'.reqJar = resp.resJar
             /\ resp'.context = resp.context
             /\ resp'.threw = resp.threw
             /\ resp'.resJar = resp'.reqJar
             /\ resp'.deletes = {}]_vars

\* C29 witness: getUser deleted a virtual-user cookie whose profile had expired
\* and answered from the provider; the jar it left is the one the next call
\* reads
C29_Witness ==
    /\ resp.op = "getUser"
    /\ Enforced
    /\ ExpiredVirtualCookie
    /\ resp.deletes = {VIRTUAL_USER_COOKIE}
    /\ jar = resp.resJar
    /\ jar[VIRTUAL_USER_COOKIE] = NoCookie
    /\ resp.context.isAuthenticated
    /\ resp.providerCalls = 1

-----------------------------------------------------------------------------
(* The auth error, displayed once *)

\* C31: getAuthError returns the stored message and deletes the auth-error
\* cookie in the same call, so that a getAuthError that follows on the jar it
\* left, with no setAuthError in between, returns null; a present cookie that
\* does not decode is deleted too and yields null; an absent cookie yields
\* null and no deletion
C31_ErrorShownOnce ==
    /\ []((resp.op = "getAuthError")
            => /\ HasValue(resp.reqJar[AUTH_ERROR_COOKIE])
                  => /\ resp.deletes = {AUTH_ERROR_COOKIE}
                     /\ resp.resJar[AUTH_ERROR_COOKIE] = NoCookie
               /\ (/\ HasValue(resp.reqJar[AUTH_ERROR_COOKIE])
                   /\ ~SignedAndFresh(resp.reqJar[AUTH_ERROR_COOKIE], SharedSecret, resp.at))
                  => resp.result = NullMessage
               /\ (/\ SignedAndFresh(resp.reqJar[AUTH_ERROR_COOKIE], SharedSecret, resp.at)
                   /\ resp.reqJar[AUTH_ERROR_COOKIE].payload.errorMessage # "")
                  => resp.result = resp.reqJar[AUTH_ERROR_COOKIE].payload.errorMessage
               /\ ~HasValue(resp.reqJar[AUTH_ERROR_COOKIE])
                  => /\ resp.result = NullMessage
                     /\ resp.deletes = {}
                     /\ resp.resJar = resp.reqJar)
    /\ [][(resp.op = "getAuthError" /\ resp'.op = "getAuthError" /\ now' = now
             /\ resp'.reqJar = resp.resJar)
          => /\ resp'.result = NullMessage
             /\ resp'.deletes = {}]_vars
    /\ [][(resp.op = "setAuthError" /\ resp'.op = "getAuthError"
             /\ resp'.reqJar = resp.resJar /\ now < resp.at + THIRTY_DAYS
             /\ resp.message # "")
          => /\ resp'.result = resp.message
             /\ resp'.resJar[AUTH_ERROR_COOKIE] = NoCookie]_vars

\* C31 witness: the message had been returned and the cookie deleted; the call
\* that followed on the emptied jar returned null
C31_Witness ==
    /\ resp.op = "getAuthError"
    /\ resp.message = CANNOT_REACH_SERVER
    /\ resp.reqJar[AUTH_ERROR_COOKIE] = NoCookie
    /\ resp.result = NullMessage
    /\ resp.deletes = {}

\* C31 witness of the undecodable cookie: a token of another secret was
\* deleted and yielded null
Error_UndecodableDeleted ==
    /\ resp.op = "getAuthError"
    /\ resp.reqJar[AUTH_ERROR_COOKIE].form = "jwt"
    /\ resp.reqJar[AUTH_ERROR_COOKIE].key # SharedSecret
    /\ resp.result = NullMessage
    /\ resp.deletes = {AUTH_ERROR_COOKIE}

-----------------------------------------------------------------------------
(* The expiry of the embedded profile *)

Virtual_TruthyExpChecked ==
    (resp.op = "getUser" /\ Enforced /\ resp.context.isVirtual
       /\ resp.context.userInfo.exp # 0)
    => resp.context.userInfo.exp >= resp.at

\* C32: a Virtual identity with a nonzero exp was returned in the very second
\* of its exp, from a cookie signed with the configured secret
Virtual_ServedAtItsExp ==
    /\ resp.op = "getUser"
    /\ Enforced
    /\ resp.context.isVirtual
    /\ resp.at > 0
    /\ resp.context.userInfo.exp = resp.at
    /\ resp.reqJar[VIRTUAL_USER_COOKIE].key = SharedSecret

-----------------------------------------------------------------------------
(* Sign-out and the Edge Gate *)

\* the Edge Gate would accept the jar the last operation left
GateAcceptsAfter == verifySession(resp.resJar, LOGTO_COOKIE_SECRET, resp.at).ok

\* C33: after signOut has returned, on its virtual path, its provider path or
\* its exception path, and whatever cookies the client held before, the jar
\* holds no session cookie the Edge Gate would accept
C33_SignOutLeavesNoSession ==
    (resp.op = "signOut" /\ ~resp.threw) => ~GateAcceptsAfter

\* C33, where it holds: a signOut that did not take the virtual path leaves
\* nothing the Edge Gate accepts
SignOut_ProviderPathsLeaveNoSession ==
    (resp.op = "signOut" /\ ~resp.threw /\ ~VirtualSessionActive)
    => /\ resp.resJar[LOGTO_SESSION_COOKIE] = NoCookie
       /\ ~GateAcceptsAfter

\* C33, what the virtual path does: a provider-session cookie held next to the
\* virtual-user cookie is still there after signOut, and the Edge Gate
\* accepts it
SignOut_VirtualPathKeepsProviderSession ==
    (resp.op = "signOut" /\ VirtualSessionActive
       /\ SignedAndFresh(resp.reqJar[LOGTO_SESSION_COOKIE], SharedSecret, resp.at))
    => /\ ~resp.threw
       /\ resp.resJar[VIRTUAL_USER_COOKIE] = NoCookie
       /\ resp.resJar[LOGTO_SESSION_COOKIE] = resp.reqJar[LOGTO_SESSION_COOKIE]
       /\ GateAcceptsAfter

\* C33: signOut returned for a client that held both cookies, and the Edge
\* Gate accepts what is left
SignOut_BothCookiesHeld ==
    /\ resp.op = "signOut"
    /\ ~resp.threw
    /\ VirtualSessionActive
    /\ SignedAndFresh(resp.reqJar[LOGTO_SESSION_COOKIE], SharedSecret, resp.at)
    /\ GateAcceptsAfter

-----------------------------------------------------------------------------
(* One client through the lifecycle: the jar starts empty and holds only    *)
(* what the operations write                                                *)

\* the page the client asks for and comes back to
LifePostRedirects == { <<>>, <<"/", "chat">> }

\* a protected page, a protected API route, the sign-in entry point
LifePaths ==
    { <<"/", "chat">>, <<"/", "api", "/", "chat">>,
      <<"/", "api", "/", "auth", "/", "sign-in">> }

\* the profile an administrator logs in as
LifeUser == [id |-> "u1"]

LifeInit ==
    /\ LOGTO_ENABLE = "true"
    /\ LOGTO_COOKIE_SECRET \in SecretValues
    /\ LOGTO_BASE_URL = ""
    /\ now = 0
    /\ jar = EmptyJar
    /\ provider \in ProviderOutcomes
    /\ resp = VirtualWritten("none", NoLogtoUser, jar)

LifeTick(t) ==
    /\ t > now
    /\ now' = t
    /\ UNCHANGED <<LOGTO_ENABLE, LOGTO_COOKIE_SECRET, LOGTO_BASE_URL, jar, provider, resp>>

\* a page calls getAuthError() and the client honours the deletion
ReadAuthError ==
    LET r == getAuthError(jar, LOGTO_COOKIE_SECRET, now)
    IN  /\ jar' = r.jar
        /\ resp' = ErrorServed("getAuthError", "", r.jar, r.message, r.deletes)
        /\ UNCHANGED <<LOGTO_ENABLE, LOGTO_COOKIE_SECRET, LOGTO_BASE_URL, now, provider>>

\* the operations that write cookies run in the first seconds; the reads and
\* the deletions at any time
LifeNext ==
    \/ \E t \in CodecTimes : LifeTick(t)
    \/ \E c \in ClientOutcomes : \E e \in ErrorsWhen(c = "throws") \cap (SessionErrors \cup {NoError}) :
          now <= MaxTime /\ SignIn(<<"/", "chat">>, c, e)
    \/ \E c \in ClientOutcomes, p \in LifePostRedirects :
          \E e \in ErrorsWhen(c = "throws" \/ provider = "throws") \cap (SessionErrors \cup {NoError}) :
             now <= MaxTime /\ HandleCallback(c, p, e)
    \/ \E c \in ClientOutcomes : \E e \in ErrorsWhen(c = "throws") \cap (SessionErrors \cup {NoError}) :
          SignOut(c, e)
    \/ SetVirtualUser(LifeUser)
    \/ ClearVirtualUser
    \/ ReadAuthError
    \/ GetUser
    \/ \E pathname \in LifePaths : Middleware(pathname)

LifeSpec == LifeInit /\ [][LifeNext]_vars

-----------------------------------------------------------------------------
(* Tokens under another cookie name: the client holds what the operations   *)
(* wrote for it and presents it under the name it likes                     *)

\* the client presents the token of one cookie as a session cookie
PresentAs(from, to) ==
    /\ from # to
    /\ to \in {LOGTO_SESSION_COOKIE, VIRTUAL_USER_COOKIE}
    /\ HasValue(jar[from])
    /\ jar[to] # jar[from]
    /\ jar' = [jar EXCEPT ![to] = jar[from]]
    /\ UNCHANGED <<LOGTO_ENABLE, LOGTO_COOKIE_SECRET, LOGTO_BASE_URL, now, provider, resp>>

\* the requests of one run are served within one second, whichever it is
ForgedInit ==
    /\ LOGTO_ENABLE = "true"
    /\ LOGTO_COOKIE_SECRET \in SecretValues
    /\ LOGTO_BASE_URL = ""
    /\ now \in 0..MaxTime
    /\ jar = EmptyJar
    /\ provider \in SessionProviders
    /\ resp = VirtualWritten("none", NoLogtoUser, jar)

ForgedNext ==
    \/ \E e \in SessionErrors : SignIn(<<"/", "chat">>, "throws", e)
    \/ \E e \in ErrorsWhen(provider = "throws") \cap (SessionErrors \cup {NoError}) :
          HandleCallback("returns", <<>>, e)
    \/ SetVirtualUser(LifeUser)
    \/ \E from \in CookieNames, to \in CookieNames : PresentAs(from, to)
    \/ GetUser
    \/ \E pathname \in LifePaths : Middleware(pathname)

ForgedSpec == ForgedInit /\ [][ForgedNext]_vars

\* tok holds session claims: isAuthenticated = true, as handleCallback and
\* setVirtualUser write them
HoldsSessionClaims(tok) ==
    /\ tok.form = "jwt"
    /\ "isAuthenticated" \in DOMAIN tok.payload
    /\ tok.payload.isAuthenticated

\* tok holds error claims, as setAuthError writes them
HoldsErrorClaims(tok) ==
    /\ tok.form = "jwt"
    /\ "errorMessage" \in DOMAIN tok.payload
    /\ "isAuthenticated" \notin DOMAIN tok.payload

\* the Edge Gate let a request for a protected path through
AdmittedToProtected ==
    /\ resp.op = "middleware"
    /\ Enforced
    /\ matchesRoute(resp.path, PROTECTED_ROUTES)
    /\ resp.kind = "next"

\* C34: with enforcement ON, the Edge Gate admits a protected request only
\* when one of the two session cookies holds session claims; a correctly
\* signed error-claims token in the logto_session or virtual_user cookie gets
\* no protected request admitted
C34_GateAdmitsSessionClaimsOnly ==
    AdmittedToProtected
    => \/ HoldsSessionClaims(resp.reqJar[LOGTO_SESSION_COOKIE])
       \/ HoldsSessionClaims(resp.reqJar[VIRTUAL_USER_COOKIE])

\* C34, what the Edge Gate tests: the signature and the expiry of the token
\* under its secret, in either cookie, and nothing of the claims
Gate_AdmitsAnyVerifiedToken ==
    (resp.op = "middleware" /\ Enforced /\ matchesRoute(resp.path, PROTECTED_ROUTES))
    => (resp.kind = "next"
          <=> \E c \in {LOGTO_SESSION_COOKIE, VIRTUAL_USER_COOKIE} :
                 SignedAndFresh(resp.reqJar[c], middlewareSecret(LOGTO_COOKIE_SECRET),
                                resp.at))

\* C34: a protected request was admitted on the token signIn had stored for
\* its error message, presented as logto_session, with no other session cookie
Gate_AdmittedOnErrorToken ==
    /\ AdmittedToProtected
    /\ HoldsErrorClaims(resp.reqJar[LOGTO_SESSION_COOKIE])
    /\ resp.reqJar[LOGTO_SESSION_COOKIE] = resp.reqJar[AUTH_ERROR_COOKIE]
    /\ resp.reqJar[VIRTUAL_USER_COOKIE] = NoCookie

\* C35: getUser returns a Virtual identity only when the virtual-user cookie
\* holds the claims setVirtualUser writes (isVirtual = true); the token
\* setLogtoSession wrote, presented as virtual_user, is not resolved as a
\* Virtual identity
C35_VirtualFromVirtualClaimsOnly ==
    (resp.op = "getUser" /\ Enforced /\ resp.context.isVirtual)
    => /\ "isVirtual" \in DOMAIN resp.reqJar[VIRTUAL_USER_COOKIE].payload
       /\ resp.reqJar[VIRTUAL_USER_COOKIE].payload.isVirtual

\* C35, what getVirtualUser tests: isAuthenticated and the presence of a
\* profile, whose exp has not passed; the identity it returns carries the
\* profile of the cookie, whoever wrote it
Virtual_FromAnyAuthenticatedClaims ==
    (resp.op = "getUser" /\ Enforced /\ resp.context.isVirtual)
    => /\ HoldsSessionClaims(resp.reqJar[VIRTUAL_USER_COOKIE])
       /\ resp.context.userInfo = resp.reqJar[VIRTUAL_USER_COOKIE].payload.userInfo
       /\ resp.providerCalls = 0

\* C35: the token handleCallback had written as logto_session, presented as
\* virtual_user, came back as a Virtual identity with the provider's profile
Virtual_FromProviderSessionToken ==
    /\ resp.op = "getUser"
    /\ Enforced
    /\ resp.context.isVirtual
    /\ resp.context.userInfo = ProviderUserInfo
    /\ resp.reqJar[VIRTUAL_USER_COOKIE] = resp.reqJar[LOGTO_SESSION_COOKIE]
    /\ "isVirtual" \notin DOMAIN resp.reqJar[VIRTUAL_USER_COOKIE].payload

-----------------------------------------------------------------------------
(* The Edge Gate against the Identity Resolver, on the jars the lifecycle   *)
(* operations produce                                                       *)

\* what getUser would return for a request made now with the client's jar
ResolverNow == getUser(LOGTO_ENABLE, LOGTO_COOKIE_SECRET, jar, provider, now)

\* what the Edge Gate would answer to a request for pathname made now
GateNow(pathname) == middleware(pathname, LOGTO_ENABLE, LOGTO_COOKIE_SECRET, jar, now)

\* the protected paths among those requested
ProtectedLifePaths == { p \in LifePaths : matchesRoute(p, PROTECTED_ROUTES) }

\* the resolver would return an identity that rests on a session cookie of
\* this client: a Virtual identity, or the provider's identity while the
\* provider-session cookie handleCallback wrote is in the jar and not expired
ResolverAuthenticatedNow ==
    /\ ResolverNow.context.isAuthenticated
    /\ \/ ResolverNow.context.isVirtual
       \/ SignedAndFresh(jar[LOGTO_SESSION_COOKIE], SharedSecret, now)

\* C36: in every state the lifecycle operations reach with enforcement ON, a
\* request for which getUser would return an authenticated identity is
\* admitted by the Edge Gate to every protected path: the Edge Gate rejects
\* only what the resolver treats as Unauthenticated
C36_GateCoarserThanResolver ==
    (Enforced /\ ResolverAuthenticatedNow)
    => \A pathname \in ProtectedLifePaths : GateNow(pathname).kind = "next"

\* C36, where it holds: with LOGTO_COOKIE_SECRET set, both checkpoints use it
Gate_CoarserWhenSecretSet ==
    (Enforced /\ ResolverAuthenticatedNow /\ LOGTO_COOKIE_SECRET # "")
    => \A pathname \in ProtectedLifePaths : GateNow(pathname).kind = "next"

\* C36, what happens with LOGTO_COOKIE_SECRET unset: the Edge Gate admits no
\* protected request at all, whatever the resolver makes of the cookies
Gate_RejectsAllWhenSecretUnset ==
    (Enforced /\ LOGTO_COOKIE_SECRET = "")
    => \A pathname \in ProtectedLifePaths : GateNow(pathname).kind # "next"

\* C36: setVirtualUser has just written the cookie, getUser would return the
\* Virtual identity, and the Edge Gate turns the page request away
Gate_RejectsVirtualIdentity ==
    /\ resp.op = "setVirtualUser"
    /\ Enforced
    /\ ResolverNow.context.isVirtual
    /\ GateNow(<<"/", "chat">>).kind = "redirect"

-----------------------------------------------------------------------------
(* Who writes the provider-session cookie *)

\* the token handleCallback writes at time t for the provider's profile
CallbackToken(t) ==
    encryptSession([isAuthenticated |-> TRUE, userInfo |-> ProviderUserInfo],
                   LOGTO_COOKIE_SECRET, t)

\* C37: among signIn, handleCallback, signOut, setVirtualUser,
\* clearVirtualUser, getAuthError and getUser, only handleCallback writes the
\* provider-session cookie, and only when the provider's callback exchange
\* returned and the provider context reported an authenticated profile; the
\* jar never holds a provider-session cookie that no such callback wrote
C37_OnlyCallbackWritesSession ==
    /\ [][(jar'[LOGTO_SESSION_COOKIE] # jar[LOGTO_SESSION_COOKIE]
             /\ HasValue(jar'[LOGTO_SESSION_COOKIE]))
          => /\ resp'.op = "handleCallback"
             /\ resp'.at = now
             /\ resp'.client = "returns"
             /\ resp'.provider = "authenticated"
             /\ provider = "authenticated"
             /\ jar'[LOGTO_SESSION_COOKIE] = CallbackToken(now)]_vars
    /\ [](HasValue(jar[LOGTO_SESSION_COOKIE])
            => /\ provider = "authenticated"
               /\ \E t \in 0..MaxTime : jar[LOGTO_SESSION_COOKIE] = CallbackToken(t))
    /\ []((resp.op \in {"signIn", "signOut", "setVirtualUser", "clearVirtualUser",
                        "getAuthError", "getUser"}
             /\ HasValue(resp.resJar[LOGTO_SESSION_COOKIE]))
            => resp.resJar[LOGTO_SESSION_COOKIE] = resp.reqJar[LOGTO_SESSION_COOKIE])

\* C37 witness: the exchange returned, the provider reported its profile, and
\* handleCallback wrote the cookie into a jar that had none
C37_Witness ==
    /\ resp.op = "handleCallback"
    /\ resp.client = "returns"
    /\ resp.provider = "authenticated"
    /\ resp.reqJar[LOGTO_SESSION_COOKIE] = NoCookie
    /\ jar[LOGTO_SESSION_COOKIE] = CallbackToken(resp.at)

\* C37 witness of the other operations: the exchange failed, the error
\* message was stored, and the jar still holds no provider-session cookie
Callback_FailedExchangeNoSession ==
    /\ resp.op = "handleCallback"
    /\ resp.client = "throws"
    /\ HasValue(jar[AUTH_ERROR_COOKIE])
    /\ jar[LOGTO_SESSION_COOKIE] = NoCookie

-----------------------------------------------------------------------------
(* Back to the page after sign-in *)

\* the last operation was a handleCallback that completed the sign-in for the
\* page /chat: the exchange returned, the provider reported its profile, the
\* cookie was written and the client sent back to the page
SignInCompletedForPage ==
    /\ resp.op = "handleCallback"
    /\ resp.client = "returns"
    /\ resp.provider = "authenticated"
    /\ ~resp.caught
    /\ resp.postRedirectUri = <<"/", "chat">>
    /\ resp.resJar[LOGTO_SESSION_COOKIE] = CallbackToken(resp.at)

\* the step is the client's request for the page, carrying the jar the
\* callback left, before the cookie expires
PageRequestFollows ==
    /\ resp'.op = "middleware"
    /\ resp'.path = <<"/", "chat">>
    /\ resp'.reqJar = resp.resJar
    /\ now < resp.at + THIRTY_DAYS

\* C38: with enforcement ON, once the provider sign-in and the callback
\* exchange have succeeded with an authenticated profile, the client's next
\* request for the protected page, carrying the cookie handleCallback set, is
\* admitted by the Edge Gate, whatever the process configuration: the cycle
\* page, sign-in, callback, page does not repeat
C38_NoRedirectLoop ==
    [][(Enforced /\ SignInCompletedForPage /\ PageRequestFollows)
       => resp'.kind = "next"]_vars

\* C38, where it holds: with LOGTO_COOKIE_SECRET set the page is admitted
NoRedirectLoop_WhenSecretSet ==
    [][(Enforced /\ LOGTO_COOKIE_SECRET # "" /\ SignInCompletedForPage
          /\ PageRequestFollows)
       => resp'.kind = "next"]_vars

\* C38, with LOGTO_COOKIE_SECRET unset: the Edge Gate sends the client to
\* sign-in again, with the page as redirectTo
RedirectLoop_WhenSecretUnset ==
    [][(Enforced /\ LOGTO_COOKIE_SECRET = "" /\ SignInCompletedForPage
          /\ PageRequestFollows)
       => /\ resp'.kind = "redirect"
          /\ resp'.location.pathname = AUTH_ROUTES_signIn
          /\ decodeParam(resp'.location.redirectTo) = <<"/", "chat">>]_vars

\* C38: the page request that followed a completed sign-in was redirected to
\* sign-in
RedirectedAfterSignIn ==
    /\ resp.op = "middleware"
    /\ resp.path = <<"/", "chat">>
    /\ resp.kind = "redirect"
    /\ \E t \in 0..MaxTime : resp.reqJar[LOGTO_SESSION_COOKIE] = CallbackToken(t)
    /\ resp.at < THIRTY_DAYS
    /\ provider = "authenticated"

-----------------------------------------------------------------------------
(* Two requests at once: each handler runs step by step, every await a      *)
(* point where the other request may run. Here jar, provider and resp hold  *)
(* one value per client.                                                    *)

Clients == {"A", "B"}

\* cookies(): the cookie store of the request that calls it
cookieStore_OfFirstRequest(c) == "A"

cookieStore(c) == c

\* the operations a request may be for
ConcOps == {"getUser", "signOut", "setVirtualUser", "middleware"}

\* the jars the two clients hold
ConcJars ==
    { [n \in CookieNames |->
          IF n = LOGTO_SESSION_COOKIE THEN l
          ELSE IF n = VIRTUAL_USER_COOKIE THEN v
          ELSE NoCookie] : l \in AuthLogtoPool, v \in AuthVirtualPool }

\* the page the middleware is asked for
ConcPath == <<"/", "chat">>

\* a request: its operation, where its handler stands, the jar it arrived
\* with, what the sign-out call of the provider does for it, the handler's
\* local values, and its response once it is done
Request(op, pc, reqJar, client, isVirtual, kind, location, context) ==
    [op |-> op, pc |-> pc, reqJar |-> reqJar, client |-> client,
     isVirtual |-> isVirtual, kind |-> kind, location |-> location,
     context |-> context]

Idle(j) == Request("none", "idle", j, "returns", FALSE, "none", <<>>, Unauthenticated)

ConcInit ==
    /\ LOGTO_ENABLE = "true"
    /\ LOGTO_COOKIE_SECRET = "k1"
    /\ LOGTO_BASE_URL = ""
    /\ now \in 0..MaxTime
    /\ jar \in [Clients -> ConcJars]
    /\ jar["A"] # jar["B"]
    /\ provider \in [Clients -> SessionProviders]
    /\ resp = [c \in Clients |-> Idle(jar[c])]

\* the request of client c arrives
Begin(c, op, client) ==
    /\ resp[c].pc = "idle"
    /\ resp' = [resp EXCEPT ![c] = Request(op, op, jar[c], client, FALSE, "none",
                                           <<>>, Unauthenticated)]
    /\ UNCHANGED <<LOGTO_ENABLE, LOGTO_COOKIE_SECRET, LOGTO_BASE_URL, now, jar, provider>>

\* the handler of c ends with a response
Respond(c, kind, location, context) ==
    [resp EXCEPT ![c].pc = "done", ![c].kind = kind, ![c].location = location,
                 ![c].context = context]

GoTo(c, pc) == [resp EXCEPT ![c].pc = pc]

\* await getVirtualUser(), in getUser (index.ts 347) and in signOut (438)
AwaitGetVirtualUser(c) ==
    /\ resp[c].pc \in {"getUser", "signOut"}
    /\ LET virtualUser == getVirtualUser(jar[cookieStore(c)], LOGTO_COOKIE_SECRET, now)
       IN  /\ jar' = [jar EXCEPT ![cookieStore(c)] = virtualUser.jar]
           /\ resp' = IF resp[c].pc = "getUser"
                        THEN IF virtualUser.isNull
                               THEN GoTo(c, "getLogtoContext")
                               ELSE Respond(c, "context", <<>>, virtualUser.user)
                        ELSE IF ~virtualUser.isNull /\ virtualUser.user.isVirtual
                               THEN GoTo(c, "clearVirtualUser")
                               ELSE GoTo(c, "clearLogtoSession")
    /\ UNCHANGED <<LOGTO_ENABLE, LOGTO_COOKIE_SECRET, LOGTO_BASE_URL, now, provider>>

\* await logtoClient.getLogtoContext(...), in getUser (index.ts 355)
AwaitGetLogtoContext(c) ==
    /\ resp[c].pc = "getLogtoContext"
    /\ resp' = Respond(c, "context", <<>>, providerTier(provider[c]))
    /\ UNCHANGED <<LOGTO_ENABLE, LOGTO_COOKIE_SECRET, LOGTO_BASE_URL, now, jar, provider>>

\* await clearVirtualUser(), on the virtual path of signOut (index.ts 441)
\* and at the end of its catch block (453)
AwaitClearVirtualUser(c) ==
    /\ resp[c].pc \in {"clearVirtualUser", "catch: clearVirtualUser"}
    /\ jar' = [jar EXCEPT ![cookieStore(c)] = clearVirtualUser(jar[cookieStore(c)])]
    /\ resp' = Respond(c, "redirect", CONFIG_baseUrl(LOGTO_BASE_URL), Unauthenticated)
    /\ UNCHANGED <<LOGTO_ENABLE, LOGTO_COOKIE_SECRET, LOGTO_BASE_URL, now, provider>>

\* await clearLogtoSession(), on the provider path of signOut (index.ts 446)
\* and in its catch block (452)
AwaitClearLogtoSession(c) ==
    /\ resp[c].pc \in {"clearLogtoSession", "catch: clearLogtoSession"}
    /\ jar' = [jar EXCEPT ![cookieStore(c)] = clearLogtoSession(jar[cookieStore(c)])]
    /\ resp' = IF resp[c].pc = "clearLogtoSession"
                 THEN GoTo(c, "handleSignOut")
                 ELSE GoTo(c, "catch: clearVirtualUser")
    /\ UNCHANGED <<LOGTO_ENABLE, LOGTO_COOKIE_SECRET, LOGTO_BASE_URL, now, provider>>

\* await logtoClient.handleSignOut(CONFIG.baseUrl) (index.ts 447-448)
AwaitHandleSignOut(c) ==
    /\ resp[c].pc = "handleSignOut"
    /\ resp' = IF resp[c].client = "returns" /\ canParseURL(ProviderSignOutUrl)
                 THEN Respond(c, "redirect", ProviderSignOutUrl, Unauthenticated)
                 ELSE GoTo(c, "catch: clearLogtoSession")
    /\ UNCHANGED <<LOGTO_ENABLE, LOGTO_COOKIE_SECRET, LOGTO_BASE_URL, now, jar, provider>>

\* setVirtualUser: await cookies(), await encryptSession(...) and
\* cookieStore.set (index.ts 237, 257-258)
AwaitSetVirtualUser(c) ==
    /\ resp[c].pc = "setVirtualUser"
    /\ jar' = [jar EXCEPT ![cookieStore(c)] =
                  setVirtualUser(jar[cookieStore(c)], [id |-> c], LOGTO_COOKIE_SECRET, now)]
    /\ resp' = Respond(c, "void", <<>>, Unauthenticated)
    /\ UNCHANGED <<LOGTO_ENABLE, LOGTO_COOKIE_SECRET, LOGTO_BASE_URL, now, provider>>

\* middleware: await verifySession(request), first the logto_session cookie
\* (middleware.ts 33-42)
AwaitVerifyLogtoSession(c) ==
    /\ resp[c].pc = "middleware"
    /\ LET logtoSession == jar[cookieStore(c)][LOGTO_SESSION_COOKIE]
       IN  resp' = IF HasValue(logtoSession)
                       /\ jwtVerify(logtoSession, middlewareSecret(LOGTO_COOKIE_SECRET), now)
                     THEN Respond(c, "next", <<>>, Unauthenticated)
                     ELSE GoTo(c, "verify virtual_user")
    /\ UNCHANGED <<LOGTO_ENABLE, LOGTO_COOKIE_SECRET, LOGTO_BASE_URL, now, jar, provider>>

\* then the virtual_user cookie (middleware.ts 45-54), and the answer (75-97)
AwaitVerifyVirtualUser(c) ==
    /\ resp[c].pc = "verify virtual_user"
    /\ LET virtualUser == jar[cookieStore(c)][VIRTUAL_USER_COOKIE]
       IN  resp' = IF HasValue(virtualUser)
                       /\ jwtVerify(virtualUser, middlewareSecret(LOGTO_COOKIE_SECRET), now)
                     THEN Respond(c, "next", <<>>, Unauthenticated)
                     ELSE Respond(c, "redirect", AUTH_ROUTES_signIn, Unauthenticated)
    /\ UNCHANGED <<LOGTO_ENABLE, LOGTO_COOKIE_SECRET, LOGTO_BASE_URL, now, jar, provider>>

ConcNext ==
    \E c \in Clients :
       \/ \E op \in ConcOps, client \in ClientOutcomes : Begin(c, op, client)
       \/ AwaitGetVirtualUser(c)
       \/ AwaitGetLogtoContext(c)
       \/ AwaitClearVirtualUser(c)
       \/ AwaitClearLogtoSession(c)
       \/ AwaitHandleSignOut(c)
       \/ AwaitSetVirtualUser(c)
       \/ AwaitVerifyLogtoSession(c)
       \/ AwaitVerifyVirtualUser(c)

ConcSpec == ConcInit /\ [][ConcNext]_vars

\* what the request of c gives when it is processed alone: its response and
\* the jar it leaves, computed from the jar it arrived with
Alone(c) ==
    LET r == resp[c]
    IN  IF r.op = "getUser"
          THEN LET g == getUser(LOGTO_ENABLE, LOGTO_COOKIE_SECRET, r.reqJar, provider[c], now)
               IN  [kind |-> "context", location |-> <<>>, context |-> g.context,
                    jar |-> g.jar]
        ELSE IF r.op = "signOut"
          THEN LET o == signOut(r.reqJar, LOGTO_COOKIE_SECRET, LOGTO_BASE_URL, now,
                                r.client, NoError)
               IN  [kind |-> o.kind, location |-> o.location,
                    context |-> Unauthenticated, jar |-> o.jar]
        ELSE IF r.op = "setVirtualUser"
          THEN [kind |-> "void", location |-> <<>>, context |-> Unauthenticated,
                jar |-> setVirtualUser(r.reqJar, [id |-> c], LOGTO_COOKIE_SECRET, now)]
        ELSE LET m == middleware(ConcPath, LOGTO_ENABLE, LOGTO_COOKIE_SECRET, r.reqJar, now)
             IN  [kind |-> m.kind,
                  location |-> IF m.kind = "redirect" THEN m.location.pathname ELSE <<>>,
                  context |-> Unauthenticated, jar |-> r.reqJar]

\* C39: requests of different clients do not interfere: in every interleaving
\* of the steps of two requests that carry different jars, the response of
\* each request and the content of its own jar are what that request gives
\* when it is processed alone; a client whose request has not begun holds the
\* jar it started with
C39_NoInterference ==
    \A c \in Clients :
       /\ resp[c].pc = "done"
          => /\ resp[c].kind = Alone(c).kind
             /\ resp[c].location = Alone(c).location
             /\ resp[c].context = Alone(c).context
             /\ jar[c] = Alone(c).jar
       /\ resp[c].pc = "idle" => jar[c] = resp[c].reqJar

\* C39 witness: B set its virtual user while A was in the middle of a
\* sign-out that went on to delete A's cookies; both are done
C39_Witness ==
    /\ resp["A"].op = "signOut"
    /\ resp["B"].op = "setVirtualUser"
    /\ resp["A"].pc = "done"
    /\ resp["B"].pc = "done"
    /\ resp["A"].client = "throws"
    /\ HasValue(resp["A"].reqJar[LOGTO_SESSION_COOKIE])
    /\ jar["A"][LOGTO_SESSION_COOKIE] = NoCookie
    /\ jar["A"][VIRTUAL_USER_COOKIE] = NoCookie
    /\ HasValue(jar["B"][VIRTUAL_USER_COOKIE])
    /\ jar["B"][VIRTUAL_USER_COOKIE].payload.userInfo.sub = "B"


====
